---- MODULE Spec2Model ----
(***************************************************************************)
(* Model of the mymq broker dataplane.                                     *)
(*                                                                         *)
(* Part 1: the bounded packet/message queues with waker-on-drop            *)
(*         (src/src/broker/message.rs MsgTx/MsgRx, src/src/broker/socket.rs*)
(*         PktTx/PktRx; the two pairs have the same code).                 *)
(* Part 2: the read path of Socket (src/src/broker/socket.rs):             *)
(*         read_packets, read_packet, send_upstream, read timeout.         *)
(*                                                                         *)
(* Specifications:                                                         *)
(*   Spec      producers (clone, try_sends, drop) and one consumer         *)
(*             (try_recvs, poll) on one queue, every interleaving of the   *)
(*             per-item steps.                                             *)
(*   SpecSock  one Socket running read_packets against the shard that      *)
(*             drains the session's inbound queue.                         *)
(***************************************************************************)
EXTENDS Integers, Sequences, FiniteSets, TLC

(* ---- bounds of the model ---- *)
\* capacity `size` given to msg_channel / pkt_channel; the same value is the
\* receiver's batch size (message.rs:207, socket.rs:359)
QueueSize == 1
\* producer handles that can exist: handle 0 is the one made by the channel
\* constructor, the others are clones
MaxClones == 1
\* items ever handed to try_sends in one behaviour of Spec
MaxItems == 2
\* longest batch handed to one try_sends call
MaxBatch == 2

\* config.sock_mqtt_read_timeout, in seconds
sock_mqtt_read_timeout == 1
\* the clock stops advancing at MaxTime
MaxTime == 3
\* packets the connection ever delivers complete (caps the read loop)
MaxParsed == 3
\* config.sock_mqtt_write_timeout, in seconds
sock_mqtt_write_timeout == 1
\* packets the session ever queues toward one connection
MaxWrPkts == 3
\* an encoded packet is 1..MaxBlobLen bytes long
MaxBlobLen == 2
\* the client's receive_maximum is in 1..MaxRecvMax
MaxRecvMax == 2
\* the largest PacketID (the u16 maximum in the program), scaled down so that
\* the rolling counter wraps
PacketIdMax == 3
\* messages ever routed to one session
MaxPubs == 5
\* peer shards of a shard
NumPeers == 2
\* PUBLISHes one client ever sends
MaxInpPubs == 2
\* the publishing client takes its PacketIDs from 1..MaxInpPid
MaxInpPid == 2
\* PUBLISHes one shard ever routes to a peer
MaxRouted == 3
\* num_shards is 2 ^ ShardBits
ShardBits == 1
\* client ids are 1..MaxClientId
MaxClientId == 2
\* connections the listener ever accepts
MaxConns == 2
\* crate::CONTROL_CHAN_SIZE: requests taken by one drain_control_chan
CONTROL_CHAN_SIZE == 2
\* config.mqtt_pkt_batch_size is drawn from 1..MaxPktBatch
MaxPktBatch == 2

Handles == 0..MaxClones

VARIABLES
    queue,        \* mpsc::sync_channel buffer, oldest first
    rx_alive,     \* the Receiver (MsgRx/PktRx) has not been dropped
    wake_pending, \* mio::Waker readiness: set by wake(), cleared when poll returns
    tx,           \* producer handles: MsgTx/PktTx fields and the position in try_sends
    rx,           \* the consumer: position in try_recvs / poll, local msgs, last status
    sent,         \* history: items successfully try_send-ed, in channel order
    recvd,        \* history: items returned by completed try_recvs calls, in order
    next_item,    \* next fresh item id for a producer batch
    sock,         \* Socket.rd and the position of the Miot thread in read_packets
    now,          \* time::SystemTime::now(), in seconds
    wt,           \* Socket.wt and the position of the Miot thread in write_packets
    sess,         \* one Session: ClientOut, ClientInp and what its client has seen
    shd,          \* one Shard routing PUBLISHes to a peer shard
    cl,           \* the Cluster thread, its control channel and its children
    cx            \* one call of a codec function: its input and what it returned

vars == <<queue, rx_alive, wake_pending, tx, rx, sent, recvd, next_item, sock, now,
          wt, sess, shd, cl, cx>>

\* the variables of the queue and of the Socket read path
chanVars == <<queue, rx_alive, wake_pending, tx, rx, sent, recvd, next_item, sock, now>>

(* ---- helpers ---- *)
IsPrefix(p, s) == Len(p) <= Len(s) /\ SubSeq(s, 1, Len(p)) = p

\* <<a, a+1, ..., a+n-1>>
Iota(a, n) == [i \in 1..n |-> a + i - 1]

\* position of item x in sequence s (0 when absent); items are unique
PosIn(x, s) == IF \E i \in 1..Len(s) : s[i] = x
               THEN CHOOSE i \in 1..Len(s) : s[i] = x
               ELSE 0

(* ---- producer handle ---- *)
\* A slot that holds no handle (never created).
FreeTx == [st |-> "free", count |-> 0, pc |-> "idle", iter |-> <<>>,
           status |-> "none", values |-> <<>>,
           B |-> <<>>, P |-> <<>>, own |-> 0, wakes |-> 0]

\* msg_channel / pkt_channel: the handle made with the channel, count = 0.
NewTx == [FreeTx EXCEPT !.st = "live"]

\* #[derive(Clone)] on MsgTx / PktTx: every field is copied, count included.
\* own and wakes describe the new handle itself and start at 0.
CloneTx(t) == [FreeTx EXCEPT !.st = "live", !.count = t.count]

SenderAlive == \E h \in Handles : tx[h].st = "live"

(* ---- producer operations (MsgTx / PktTx) ---- *)
\* let tx2 = tx.clone(): slot c receives a copy of handle h.
clone(h, c) ==
    /\ tx[h].st = "live" /\ tx[h].pc = "idle"
    /\ tx[c].st = "free"
    /\ \A d \in Handles : d < c => tx[d].st # "free"
    /\ tx' = [tx EXCEPT ![c] = CloneTx(tx[h])]
    /\ UNCHANGED <<queue, rx_alive, wake_pending, rx, sent, recvd, next_item, sock, now,
                  wt, sess, shd, cl, cx>>

\* try_sends(msgs): entry, `let mut iter = msgs.into_iter()`.
\* The batch is n fresh items.
try_sends_call(h, n) ==
    /\ tx[h].st = "live" /\ tx[h].pc = "idle"
    /\ next_item + n - 1 <= MaxItems
    /\ tx' = [tx EXCEPT ![h].pc = "sends", ![h].iter = Iota(next_item, n),
                        ![h].status = "none", ![h].values = <<>>,
                        ![h].B = Iota(next_item, n), ![h].P = <<>>]
    /\ next_item' = next_item + n
    /\ UNCHANGED <<queue, rx_alive, wake_pending, rx, sent, recvd, sock, now,
                  wt, sess, shd, cl, cx>>

\* try_sends_step with the failed element forgotten: the returned vector is
\* the rest of the iterator only (no msgs.insert(0, msg)).
try_sends_step_lossy(h) ==
    /\ tx[h].st = "live" /\ tx[h].pc = "sends"
    /\ IF tx[h].iter = <<>>
       THEN /\ tx' = [tx EXCEPT ![h].pc = "idle", ![h].status = "Ok",
                                ![h].values = <<>>, ![h].iter = <<>>]
            /\ UNCHANGED <<queue, sent>>
       ELSE LET msg  == Head(tx[h].iter)
                rest == Tail(tx[h].iter)
            IN  IF ~rx_alive \/ Len(queue) >= QueueSize
                THEN /\ tx' = [tx EXCEPT ![h].pc = "idle",
                                         ![h].status = IF rx_alive THEN "Block"
                                                       ELSE "Disconnected",
                                         ![h].values = rest,
                                         ![h].iter = <<>>]
                     /\ UNCHANGED <<queue, sent>>
                ELSE /\ queue' = Append(queue, msg)
                     /\ sent' = Append(sent, msg)
                     /\ tx' = [tx EXCEPT ![h].iter = rest,
                                         ![h].count = @ + 1,
                                         ![h].own = @ + 1,
                                         ![h].P = Append(@, msg)]
    /\ UNCHANGED <<rx_alive, wake_pending, rx, recvd, next_item, sock, now,
                  wt, sess, shd, cl, cx>>

\* try_sends_step that puts the failed element behind the rest of the
\* iterator (msgs.push(msg) for msgs.insert(0, msg)).
try_sends_step_tail_first(h) ==
    /\ tx[h].st = "live" /\ tx[h].pc = "sends"
    /\ IF tx[h].iter = <<>>
       THEN /\ tx' = [tx EXCEPT ![h].pc = "idle", ![h].status = "Ok",
                                ![h].values = <<>>, ![h].iter = <<>>]
            /\ UNCHANGED <<queue, sent>>
       ELSE LET msg  == Head(tx[h].iter)
                rest == Tail(tx[h].iter)
            IN  IF ~rx_alive \/ Len(queue) >= QueueSize
                THEN /\ tx' = [tx EXCEPT ![h].pc = "idle",
                                         ![h].status = IF rx_alive THEN "Block"
                                                       ELSE "Disconnected",
                                         ![h].values = Append(rest, msg),
                                         ![h].iter = <<>>]
                     /\ UNCHANGED <<queue, sent>>
                ELSE /\ queue' = Append(queue, msg)
                     /\ sent' = Append(sent, msg)
                     /\ tx' = [tx EXCEPT ![h].iter = rest,
                                         ![h].count = @ + 1,
                                         ![h].own = @ + 1,
                                         ![h].P = Append(@, msg)]
    /\ UNCHANGED <<rx_alive, wake_pending, rx, recvd, next_item, sock, now,
                  wt, sess, shd, cl, cx>>

\* One turn of the loop of try_sends: iter.next() and self.tx.try_send(msg).
\* SyncSender::try_send fails with Disconnected when the Receiver is dropped,
\* with Full when the buffer holds `size` items, and both give the item back.
try_sends_step(h) ==
    /\ tx[h].st = "live" /\ tx[h].pc = "sends"
    /\ IF tx[h].iter = <<>>
       THEN \* None => break QueueStatus::Ok(Vec::new())
            /\ tx' = [tx EXCEPT ![h].pc = "idle", ![h].status = "Ok",
                                ![h].values = <<>>, ![h].iter = <<>>]
            /\ UNCHANGED <<queue, sent>>
       ELSE LET msg  == Head(tx[h].iter)
                rest == Tail(tx[h].iter)
            IN  IF ~rx_alive
                THEN \* Err(Disconnected(msg)): msgs = iter, msgs.insert(0, msg)
                     /\ tx' = [tx EXCEPT ![h].pc = "idle",
                                         ![h].status = "Disconnected",
                                         ![h].values = <<msg>> \o rest,
                                         ![h].iter = <<>>]
                     /\ UNCHANGED <<queue, sent>>
                ELSE IF Len(queue) >= QueueSize
                THEN \* Err(Full(msg)): msgs = iter, msgs.insert(0, msg)
                     /\ tx' = [tx EXCEPT ![h].pc = "idle",
                                         ![h].status = "Block",
                                         ![h].values = <<msg>> \o rest,
                                         ![h].iter = <<>>]
                     /\ UNCHANGED <<queue, sent>>
                ELSE \* Ok(()) => self.count += 1
                     /\ queue' = Append(queue, msg)
                     /\ sent' = Append(sent, msg)
                     /\ tx' = [tx EXCEPT ![h].iter = rest,
                                         ![h].count = @ + 1,
                                         ![h].own = @ + 1,
                                         ![h].P = Append(@, msg)]
    /\ UNCHANGED <<rx_alive, wake_pending, rx, recvd, next_item, sock, now,
                  wt, sess, shd, cl, cx>>

\* A dropped handle: its fields are gone, the model keeps count, own and wakes.
Dropped(t) == [FreeTx EXCEPT !.st = "dropped", !.count = t.count,
                             !.own = t.own, !.wakes = t.wakes]

\* Drop that wakes whatever the count.
DropTx_always_wakes(h) ==
    /\ wake_pending' = TRUE
    /\ tx' = [tx EXCEPT ![h] = [Dropped(@) EXCEPT !.wakes = @ + 1]]

\* Drop that wakes only when more than one item was sent (count > 1).
DropTx_off_by_one(h) ==
    IF tx[h].count > 1
    THEN /\ wake_pending' = TRUE
         /\ tx' = [tx EXCEPT ![h] = [Dropped(@) EXCEPT !.wakes = @ + 1]]
    ELSE /\ tx' = [tx EXCEPT ![h] = Dropped(@)]
         /\ UNCHANGED wake_pending

\* impl Drop: if self.count > 0 { self.waker.wake() }
DropTx(h) ==
    IF tx[h].count > 0
    THEN /\ wake_pending' = TRUE
         /\ tx' = [tx EXCEPT ![h] = [Dropped(@) EXCEPT !.wakes = @ + 1]]
    ELSE /\ tx' = [tx EXCEPT ![h] = Dropped(@)]
         /\ UNCHANGED wake_pending

\* A thread drops a producer handle it is not sending through.
drop(h) ==
    /\ tx[h].st = "live" /\ tx[h].pc = "idle"
    /\ DropTx(h)
    /\ UNCHANGED <<queue, rx_alive, rx, sent, recvd, next_item, sock, now,
                  wt, sess, shd, cl, cx>>

(* ---- consumer operations (MsgRx / PktRx) ---- *)
\* try_recvs(): entry, `let mut msgs = Vec::new()`.
try_recvs_call ==
    /\ rx.pc = "run" /\ rx_alive
    /\ rx' = [pc |-> "recvs", msgs |-> <<>>, status |-> "none"]
    /\ UNCHANGED <<queue, rx_alive, wake_pending, tx, sent, recvd, next_item, sock, now,
                  wt, sess, shd, cl, cx>>

\* try_recvs_step that breaks with Ok(msgs) at the batch limit without
\* pushing the item it has just taken from the channel.
try_recvs_step_drops_last ==
    /\ rx.pc = "recvs"
    /\ IF queue # <<>>
       THEN /\ queue' = Tail(queue)
            /\ IF Len(rx.msgs) < QueueSize
               THEN /\ rx' = [rx EXCEPT !.msgs = Append(@, Head(queue))]
                    /\ UNCHANGED recvd
               ELSE /\ rx' = [rx EXCEPT !.status = "Ok", !.pc = "ret"]
                    /\ recvd' = recvd \o rx.msgs
       ELSE /\ UNCHANGED queue
            /\ recvd' = recvd \o rx.msgs
            /\ IF SenderAlive
               THEN rx' = [rx EXCEPT !.status = "Block", !.pc = "ret"]
               ELSE rx' = [rx EXCEPT !.status = "Disconnected", !.pc = "ret"]
    /\ UNCHANGED <<rx_alive, wake_pending, tx, sent, next_item, sock, now,
                  wt, sess, shd, cl, cx>>

\* One turn of the loop of try_recvs: self.rx.try_recv().
\* Receiver::try_recv gives the oldest buffered item when there is one, else
\* Disconnected when every sender is dropped, else Empty.
try_recvs_step ==
    /\ rx.pc = "recvs"
    /\ IF queue # <<>>
       THEN /\ queue' = Tail(queue)
            /\ IF Len(rx.msgs) < QueueSize
               THEN \* Ok(msg) if msgs.len() < self.msg_batch_size => msgs.push(msg)
                    /\ rx' = [rx EXCEPT !.msgs = Append(@, Head(queue))]
                    /\ UNCHANGED recvd
               ELSE \* Ok(msg) => { msgs.push(msg); break QueueStatus::Ok(msgs) }
                    /\ rx' = [rx EXCEPT !.msgs = Append(@, Head(queue)),
                                        !.status = "Ok", !.pc = "ret"]
                    /\ recvd' = recvd \o Append(rx.msgs, Head(queue))
       ELSE /\ UNCHANGED queue
            /\ recvd' = recvd \o rx.msgs
            /\ IF SenderAlive
               THEN \* Err(Empty) => break QueueStatus::Block(msgs)
                    rx' = [rx EXCEPT !.status = "Block", !.pc = "ret"]
               ELSE \* Err(Disconnected) => break QueueStatus::Disconnected(msgs)
                    rx' = [rx EXCEPT !.status = "Disconnected", !.pc = "ret"]
    /\ UNCHANGED <<rx_alive, wake_pending, tx, sent, next_item, sock, now,
                  wt, sess, shd, cl, cx>>

\* The consumer's loop around try_recvs: call again after Ok, wait in
\* poll.poll() after Block, stop after Disconnected.
consumer_dispatch ==
    /\ rx.pc = "ret"
    /\ rx' = [pc |-> CASE rx.status = "Ok" -> "run"
                        [] rx.status = "Block" -> "poll"
                        [] OTHER -> "closed",
              msgs |-> <<>>, status |-> "none"]
    /\ UNCHANGED <<queue, rx_alive, wake_pending, tx, sent, recvd, next_item, sock, now,
                  wt, sess, shd, cl, cx>>

\* poll.poll() returns on the waker's event and clears its readiness.
poll_return ==
    /\ rx.pc = "poll" /\ wake_pending
    /\ wake_pending' = FALSE
    /\ rx' = [rx EXCEPT !.pc = "run"]
    /\ UNCHANGED <<queue, rx_alive, tx, sent, recvd, next_item, sock, now,
                  wt, sess, shd, cl, cx>>

\* The consumer drops its MsgRx / PktRx between two calls; the channel
\* discards what it still buffers.
rx_drop ==
    /\ rx.pc = "run" /\ rx_alive
    /\ rx_alive' = FALSE
    /\ queue' = <<>>
    /\ rx' = [rx EXCEPT !.pc = "closed"]
    /\ UNCHANGED <<wake_pending, tx, sent, recvd, next_item, sock, now,
                  wt, sess, shd, cl, cx>>

(* ---- Socket read path: state ---- *)
\* Handle slot of Socket.rd.session_tx, the PktTx the Socket owns.
SessionTx == 0
\* Handle slot of the local `session_tx` clone of send_upstream.
SockTx == 1

\* Socket.rd (Source) after construction, and the Miot thread outside
\* read_packets.  b is config.mqtt_pkt_batch_size.
\*   pc          idle | su_begin | su_wait | read
\*   at          which send_upstream call is running: head (line 169) or
\*               tail (lines 180, 181, 185)
\*   pr          rd.pr: Init | Header | Remain | None (the moved-out sentinel)
\*   timeout     rd.timeout: <<>> is None, <<t>> is Some(t)
\*   packets     rd.packets
\*   result      what the last read_packets call returned
\*   parsed, parsed_call, disc, rp_out, rp_status: history of the reads
SockInit(b) ==
    [pc |-> "idle", at |-> "head", pr |-> "Init", timeout |-> <<>>,
     packets |-> <<>>, batch |-> b, result |-> "none",
     parsed |-> 0, parsed_call |-> 0, disc |-> "none",
     rp_out |-> "none", rp_status |-> "none"]

Partial == {"Init", "Header", "Remain"}

Rank(st) == CASE st = "Init" -> 0 [] st = "Header" -> 1
              [] st = "Remain" -> 2 [] OTHER -> 3

\* pr.read(&mut self.conn): the state machine advances as far as the bytes on
\* the socket allow and stops in a partial state when the socket would block;
\* or the read fails, with Disconnected or with another error.
MQTTRead_read(pr) ==
    {st \in Partial \cup {"Fin"} : Rank(st) >= Rank(pr)} \cup {"Disconnected", "Err"}

(* ---- Socket read path: operations ---- *)
\* read_elapsed(): Some(timeout) if now > timeout
read_elapsed == sock.timeout # <<>> /\ now > sock.timeout[1]

\* set_read_timeout that moves the deadline on every retry.
set_read_timeout_rearms(retry, timeout) ==
    IF retry THEN <<now + timeout>> ELSE <<>>

\* set_read_timeout(retry, timeout): the new value of rd.timeout
set_read_timeout(retry, timeout) ==
    IF retry /\ sock.timeout = <<>> THEN <<now + timeout>>
    ELSE IF ~retry THEN <<>>
    ELSE sock.timeout

\* read_packet(): out is what pr.read() gives, parse_ok whether pr.parse()
\* succeeds on a complete packet.  read_elapsed and set_read_timeout read the
\* clock within the same second.  Result: the new rd.pr and rd.timeout, the
\* status returned ("Err" for Err(err)) and its values.
read_packet(out, parse_ok) ==
    CASE out = "Disconnected" ->
           \* return Ok(disconnected); rd.pr stays MQTTRead::default()
           [pr |-> "None", timeout |-> sock.timeout,
            status |-> "Disconnected", values |-> <<>>]
      [] out = "Err" ->
           [pr |-> "None", timeout |-> sock.timeout,
            status |-> "Err", values |-> <<>>]
      [] out \in Partial /\ ~read_elapsed ->
           [pr |-> out, timeout |-> set_read_timeout(TRUE, sock_mqtt_read_timeout),
            status |-> "Block", values |-> <<>>]
      [] out \in Partial /\ read_elapsed ->
           [pr |-> out, timeout |-> set_read_timeout(FALSE, sock_mqtt_read_timeout),
            status |-> "Disconnected", values |-> <<>>]
      [] out = "Fin" /\ parse_ok ->
           \* pkt = pr.parse()?; pr = pr.reset(); Ok(vec![pkt])
           [pr |-> "Init", timeout |-> set_read_timeout(FALSE, sock_mqtt_read_timeout),
            status |-> "Ok", values |-> <<sock.parsed + 1>>]
      [] OTHER ->
           \* pr.parse()? fails: Err(err), rd.pr stays MQTTRead::default()
           [pr |-> "None", timeout |-> set_read_timeout(FALSE, sock_mqtt_read_timeout),
            status |-> "Err", values |-> <<>>]

\* read_packets(): entry.  The caller tears the socket down after
\* Disconnected or Err and does not call again.
read_packets_call ==
    /\ sock.pc = "idle" /\ sock.result \notin {"Disconnected", "Err"}
    /\ sock' = [sock EXCEPT !.pc = "su_begin", !.at = "head", !.result = "none",
                            !.parsed_call = 0, !.disc = "none",
                            !.rp_out = "none", !.rp_status = "none"]
    /\ UNCHANGED <<queue, rx_alive, wake_pending, tx, rx, sent, recvd, next_item, now,
                  wt, sess, shd, cl, cx>>

\* send_upstream(): session_tx = self.rd.session_tx.clone();
\* pkts = self.rd.packets.drain(..).collect(); session_tx.try_sends(pkts) begins.
send_upstream_begin ==
    /\ sock.pc = "su_begin"
    /\ tx[SockTx].st \in {"free", "dropped"}
    /\ tx' = [tx EXCEPT ![SockTx] = [CloneTx(tx[SessionTx]) EXCEPT
                                        !.pc = "sends", !.iter = sock.packets,
                                        !.B = sock.packets]]
    /\ sock' = [sock EXCEPT !.pc = "su_wait", !.packets = <<>>]
    /\ UNCHANGED <<queue, rx_alive, wake_pending, rx, sent, recvd, next_item, now,
                  wt, sess, shd, cl, cx>>

\* The continuation of read_packets after a send_upstream that returned
\* status st: <<next pc, result of read_packets>>.
after_send_upstream(st) ==
    IF sock.at = "head" /\ st = "Ok" THEN <<"read", sock.result>> ELSE <<"idle", st>>

\* send_upstream that does not put the unsent packets back.
send_upstream_end_loses_leftover ==
    /\ sock.pc = "su_wait"
    /\ tx[SockTx].st = "live" /\ tx[SockTx].pc = "idle"
    /\ DropTx(SockTx)
    /\ sock' = [sock EXCEPT !.packets = <<>>,
                            !.pc = after_send_upstream(tx[SockTx].status)[1],
                            !.result = after_send_upstream(tx[SockTx].status)[2]]
    /\ UNCHANGED <<queue, rx_alive, rx, sent, recvd, next_item, now, wt, sess, shd, cl, cx>>

\* send_upstream(): try_sends has returned; self.rd.packets = the values of
\* the status (left over packets); the clone is dropped on return.
send_upstream_end ==
    /\ sock.pc = "su_wait"
    /\ tx[SockTx].st = "live" /\ tx[SockTx].pc = "idle"
    /\ DropTx(SockTx)
    /\ sock' = [sock EXCEPT !.packets = tx[SockTx].values,
                            !.pc = after_send_upstream(tx[SockTx].status)[1],
                            !.result = after_send_upstream(tx[SockTx].status)[2]]
    /\ UNCHANGED <<queue, rx_alive, rx, sent, recvd, next_item, now, wt, sess, shd, cl, cx>>

\* The match of read_packets with the arms of Disconnected merged: the
\* status of send_upstream is returned whatever rd.packets holds.
read_packets_match_merged(st, n) ==
    CASE st = "Err" -> <<"idle", "head", "Err">>
      [] st = "Ok" /\ n < sock.batch -> <<"su_begin", "head", "none">>
      [] OTHER -> <<"su_begin", "tail", "none">>

\* read_packets(): the `?` and the match on the status of read_packet, with
\* n = rd.packets.len() after the extend: <<next pc, at, result>>.
read_packets_match(st, n) ==
    CASE st = "Err" -> <<"idle", "head", "Err">>
      [] st = "Ok" /\ n < sock.batch -> <<"su_begin", "head", "none">>
      [] st = "Ok" -> <<"su_begin", "tail", "none">>
      [] st = "Block" -> <<"su_begin", "tail", "none">>
      [] st = "Disconnected" /\ n = 0 -> <<"idle", "head", "Disconnected">>
      [] OTHER -> <<"su_begin", "tail", "none">>

\* read_packets(): status = self.read_packet()?;
\* self.rd.packets.extend(status.take_values()); match status { ... }
read_packets_read ==
    /\ sock.pc = "read"
    /\ \E out \in MQTTRead_read(sock.pr), parse_ok \in BOOLEAN :
        /\ (out = "Fin" /\ parse_ok) => sock.parsed < MaxParsed
        /\ out # "Fin" => parse_ok
        /\ LET r  == read_packet(out, parse_ok)
               pk == sock.packets \o r.values
               m  == read_packets_match(r.status, Len(pk))
           IN  sock' = [sock EXCEPT
                   !.pr = r.pr, !.timeout = r.timeout, !.packets = pk,
                   !.parsed = @ + Len(r.values),
                   !.parsed_call = @ + Len(r.values),
                   !.disc = IF r.status # "Disconnected" THEN @
                            ELSE IF out = "Disconnected" THEN "peer" ELSE "timeout",
                   !.rp_out = out, !.rp_status = r.status,
                   !.pc = m[1], !.at = m[2],
                   !.result = IF m[1] = "idle" THEN m[3] ELSE @]
    /\ UNCHANGED <<queue, rx_alive, wake_pending, tx, rx, sent, recvd, next_item, now,
                  wt, sess, shd, cl, cx>>

\* time::SystemTime::now() advances.
Tick ==
    /\ now < MaxTime
    /\ now' = now + 1
    /\ UNCHANGED <<queue, rx_alive, wake_pending, tx, rx, sent, recvd, next_item, sock,
                  wt, sess, shd, cl, cx>>

(* ---- Socket write path: state ---- *)
Stats0 == [items |-> 0, bytes |-> 0]

\* Socket.wt (Sink) after construction, and the Miot thread outside
\* write_packets.
\*   pc       idle | floop (in the loop of flush_packets) | recv (in try_recvs)
\*   at       which flush_packets call is running: head (line 245) or tail (263)
\*   pw       wt.pw: st is Init | Remain | Fin | None (the moved-out sentinel),
\*            blob the packet whose bytes it holds (0: no bytes)
\*   timeout  wt.timeout: <<>> is None, <<t>> is Some(t)
\*   packets  wt.packets;  iter: the local iterator of flush_packets
\*   fstats   the local stats of flush_packets;  stats: those of write_packets
\*   result   the status the last write_packets call returned
\*   written, skipped, tot: history (packets handed to the writer, packets
\*            whose encode failed, true totals of the running call)
WtInit ==
    [pc |-> "idle", at |-> "head", pw |-> [st |-> "Init", blob |-> 0],
     timeout |-> <<>>, packets |-> <<>>, iter |-> <<>>,
     fstats |-> Stats0, stats |-> Stats0, result |-> "none", fres |-> "none",
     written |-> <<>>, skipped |-> {}, tot |-> Stats0]

\* pw.write(&mut self.conn): writes as much of the blob as the socket takes;
\* stops in Init (nothing written) or Remain when the socket would block,
\* reaches Fin when the blob is written (at once when there is nothing to
\* write), or fails with Disconnected.
MQTTWrite_write(pw) ==
    IF pw.st = "Fin" \/ pw.blob = 0 THEN {"Fin"}
    ELSE IF pw.st = "Init" THEN {"Init", "Remain", "Fin", "Disconnected"}
    ELSE {"Remain", "Fin", "Disconnected"}

(* ---- Socket write path: operations ---- *)
\* Stats::update(&mut self, other): self.items = other.items; self.bytes = other.bytes
Stats_update(self, other) == [items |-> other.items, bytes |-> other.bytes]

\* write_elapsed(): Some(timeout) if now > timeout
write_elapsed == wt.timeout # <<>> /\ now > wt.timeout[1]

\* set_write_timeout(retry, timeout): the new value of wt.timeout
set_write_timeout(retry, timeout) ==
    IF retry /\ wt.timeout = <<>> THEN <<now + timeout>>
    ELSE IF ~retry THEN <<>>
    ELSE wt.timeout

\* A write_packet that reports Ok while the blob is only partly written.
write_packet_ok_on_block(out) ==
    CASE out = "Disconnected" ->
           [pw |-> [st |-> "None", blob |-> 0], timeout |-> wt.timeout,
            res |-> "Disconnected"]
      [] out \in {"Init", "Remain"} ->
           [pw |-> [wt.pw EXCEPT !.st = out],
            timeout |-> set_write_timeout(TRUE, sock_mqtt_write_timeout),
            res |-> "Ok"]
      [] OTHER ->
           [pw |-> [wt.pw EXCEPT !.st = "Fin"],
            timeout |-> set_write_timeout(FALSE, sock_mqtt_write_timeout),
            res |-> "Ok"]

\* write_packet(): out is what pw.write() gives.  Result: the new wt.pw and
\* wt.timeout and the status returned.
write_packet(out) ==
    CASE out = "Disconnected" ->
           \* (QueueStatus::Disconnected, MQTTWrite::default())
           [pw |-> [st |-> "None", blob |-> 0], timeout |-> wt.timeout,
            res |-> "Disconnected"]
      [] out \in {"Init", "Remain"} /\ ~write_elapsed ->
           [pw |-> [wt.pw EXCEPT !.st = out],
            timeout |-> set_write_timeout(TRUE, sock_mqtt_write_timeout),
            res |-> "Block"]
      [] out \in {"Init", "Remain"} /\ write_elapsed ->
           [pw |-> [wt.pw EXCEPT !.st = out],
            timeout |-> set_write_timeout(FALSE, sock_mqtt_write_timeout),
            res |-> "Disconnected"]
      [] OTHER ->
           [pw |-> [wt.pw EXCEPT !.st = "Fin"],
            timeout |-> set_write_timeout(FALSE, sock_mqtt_write_timeout),
            res |-> "Ok"]

\* flush_packets(): entry.  iter = self.wt.packets.drain(..), stats = default.
FlushBegin(w, at) ==
    [w EXCEPT !.pc = "floop", !.at = at, !.iter = w.packets, !.packets = <<>>,
              !.fstats = Stats0, !.fres = "none"]

\* flush_packets() returns (res, stats) after self.wt.packets.extend(iter),
\* and write_packets goes on: stats.update(&flush_stats); after the flush at
\* the head of its loop it calls try_recvs on Ok and returns otherwise, after
\* the flush at the tail it returns.
flush_return(w, res) ==
    LET w2 == [w EXCEPT !.packets = w.packets \o w.iter, !.iter = <<>>,
                        !.fres = res,
                        !.stats = Stats_update(w.stats, w.fstats)]
    IN  IF w.at = "head" /\ res = "Ok"
        THEN [w2 EXCEPT !.pc = "recv"]
        ELSE [w2 EXCEPT !.pc = "idle", !.result = res]

\* An encode error that ends the flush with Ok instead of skipping the packet.
on_encode_error_breaks(w) ==
    flush_return([w EXCEPT !.iter = Tail(@), !.skipped = @ \cup {Head(w.iter)}], "Ok")

\* flush_packets(): packet.encode() failed: error!(...); continue
on_encode_error(w) ==
    [w EXCEPT !.iter = Tail(@), !.skipped = @ \cup {Head(w.iter)}]

\* flush_packets(): the blob of the packet at the head of iter, len bytes
\* long, is handed to the writer: stats.bytes += len; stats.items += 1;
\* pw = pw.reset(blob).  (conn.flush() of a TcpStream does nothing and returns
\* Ok.)
hand_to_writer(w, len) ==
    [w EXCEPT !.iter = Tail(@),
              !.fstats = [items |-> @.items + 1, bytes |-> @.bytes + len],
              !.pw = [st |-> "Init", blob |-> Head(w.iter)],
              !.written = Append(@, Head(w.iter)),
              !.tot = [items |-> @.items + 1, bytes |-> @.bytes + len]]

\* write_packets(): entry, and the entry of the first flush_packets.  The
\* caller tears the socket down after Disconnected and does not call again.
write_packets_call ==
    /\ wt.pc = "idle" /\ wt.result # "Disconnected"
    /\ wt' = FlushBegin([wt EXCEPT !.stats = Stats0, !.tot = Stats0,
                                   !.result = "none"], "head")
    /\ UNCHANGED <<chanVars, sess, shd, cl, cx>>

\* One turn of the loop of flush_packets: write_packet(), then iter.next()
\* and packet.encode().
flush_packets_step ==
    /\ wt.pc = "floop"
    /\ \E out \in MQTTWrite_write(wt.pw), enc_ok \in BOOLEAN, len \in 1..MaxBlobLen :
        LET r  == write_packet(out)
            w1 == [wt EXCEPT !.pw = r.pw, !.timeout = r.timeout]
        IN  wt' = IF r.res # "Ok" THEN flush_return(w1, r.res)
                  ELSE IF w1.iter = <<>> THEN flush_return(w1, "Ok")
                  ELSE IF ~enc_ok THEN on_encode_error(w1)
                  ELSE hand_to_writer(w1, len)
    /\ UNCHANGED <<chanVars, sess, shd, cl, cx>>

\* write_packets(): self.wt.miot_rx.try_recvs(prefix) is entered.
write_packets_try_recvs ==
    /\ wt.pc = "recv" /\ rx.pc = "wait"
    /\ rx' = [pc |-> "recvs", msgs |-> <<>>, status |-> "none"]
    /\ UNCHANGED <<queue, rx_alive, wake_pending, tx, sent, recvd, next_item, sock, now,
                  wt, sess, shd, cl, cx>>

\* write_packets(): try_recvs has returned;
\* self.wt.packets.extend(status.take_values()); match status { ... }
write_packets_recvd ==
    /\ wt.pc = "recv" /\ rx.pc = "ret"
    /\ rx' = [pc |-> "wait", msgs |-> <<>>, status |-> "none"]
    /\ LET w == [wt EXCEPT !.packets = @ \o rx.msgs]
       IN  wt' = CASE rx.status = "Ok" -> FlushBegin(w, "head")
                   [] rx.status = "Block" -> FlushBegin(w, "tail")
                   [] OTHER -> [w EXCEPT !.pc = "idle", !.result = "Disconnected"]
    /\ UNCHANGED <<queue, rx_alive, wake_pending, tx, sent, recvd, next_item, sock, now,
                  sess, shd, cl, cx>>

\* The session's side of the outbound packet queue: try_sends is entered
\* with a batch of n fresh packets.
miot_tx_sends(n) ==
    /\ tx[SessionTx].st = "live" /\ tx[SessionTx].pc = "idle"
    /\ next_item + n - 1 <= MaxWrPkts
    /\ tx' = [tx EXCEPT ![SessionTx].pc = "sends",
                        ![SessionTx].iter = Iota(next_item, n),
                        ![SessionTx].status = "none", ![SessionTx].values = <<>>,
                        ![SessionTx].B = Iota(next_item, n), ![SessionTx].P = <<>>]
    /\ next_item' = next_item + n
    /\ UNCHANGED <<queue, rx_alive, wake_pending, rx, sent, recvd, sock, now,
                  wt, sess, shd, cl, cx>>

(* ---- Session: state ---- *)
\* a map with no entry
EmptyMap == [x \in {} |-> 0]

Put(f, k, v) == [x \in DOMAIN f \cup {k} |-> IF x = k THEN v ELSE f[x]]

Del(f, K) == [x \in DOMAIN f \ K |-> f[x]]

\* the peer shards of the shard that hosts the session
Peers == 1..NumPeers

\* ClientOut of a session whose client advertised receive_maximum rm.
\*   seqno           the next OutSeqno (starts at 1)
\*   next_packet_id  the rolling PacketID counter
\*   inflight        PacketID -> message (ClientOut::index)
\*   back_log        messages [msg, qos] waiting to be flushed
\*   sent, acked     history: the PUBLISHes sent to the client, in order, as
\*                   [msg, qos, pid, seqno], and the messages it acknowledged
\*   npub            history: messages routed to the session so far
ClientOutInit(rm) ==
    [receive_maximum |-> rm, seqno |-> 1, next_packet_id |-> 1,
     inflight |-> EmptyMap, back_log |-> <<>>,
     sent |-> <<>>, acked |-> {}, npub |-> 0]

\* ClientInp of a session.
\*   seqno      the next InpSeqno (starts at 1)
\*   index      PacketID -> inp_seqno of the PUBLISH not yet acknowledged
\*   peer_acks  peer shard -> last_acked
\*   pubs       history: the PUBLISH with inp_seqno s is pubs[s] = [pid, peers],
\*              peers the peer shards that have subscribers for it
\*   pubacks    history: inp_seqno -> number of PUBACKs emitted for it
ClientInpInit ==
    [seqno |-> 1, index |-> EmptyMap, peer_acks |-> EmptyMap,
     pubs |-> <<>>, pubacks |-> [s \in 1..MaxInpPubs |-> 0]]

SessInit(rm) == [out |-> ClientOutInit(rm), inp |-> ClientInpInit]

(* ---- Session: outbound ---- *)
\* the rolling PacketID counter: PacketIdMax is followed by 1, never by 0
NextId(p) == IF p = PacketIdMax THEN 1 ELSE p + 1

\* Allocation that takes the counter as it is.
alloc_packet_id_no_skip(next, inflight) == next

\* The PacketID allocated when the counter stands at next: ids that are in
\* inflight are skipped.
RECURSIVE alloc_packet_id(_, _)
alloc_packet_id(next, inflight) ==
    IF next \in DOMAIN inflight
    THEN alloc_packet_id(NextId(next), inflight)
    ELSE next

\* A stall test that lets one message too many through.
stalled_off_by_one(o) == Cardinality(DOMAIN o.inflight) > o.receive_maximum

\* inflight.len() == receive_maximum: flushing stalls
stalled(o) == Cardinality(DOMAIN o.inflight) >= o.receive_maximum

\* Flush of back_log: messages leave it from the head; a PUBLISH gets the
\* next OutSeqno; with QoS>0 it also gets a PacketID and moves to inflight,
\* unless inflight is full: then the flush stalls.
RECURSIVE flush_back_log(_)
flush_back_log(o) ==
    IF o.back_log = <<>> THEN o
    ELSE LET m == Head(o.back_log)
         IN  IF m.qos = 0
             THEN flush_back_log(
                    [o EXCEPT !.back_log = Tail(@), !.seqno = @ + 1,
                              !.sent = Append(@, [msg |-> m.msg, qos |-> 0,
                                                  pid |-> 0, seqno |-> o.seqno])])
             ELSE IF stalled(o) THEN o
             ELSE LET pid == alloc_packet_id(o.next_packet_id, o.inflight)
                  IN  flush_back_log(
                        [o EXCEPT !.back_log = Tail(@), !.seqno = @ + 1,
                                  !.next_packet_id = NextId(pid),
                                  !.inflight = Put(@, pid, m.msg),
                                  !.sent = Append(@, [msg |-> m.msg, qos |-> m.qos,
                                                      pid |-> pid, seqno |-> o.seqno])])

\* A PUBLISH of the given QoS is routed to the session: it lands in back_log.
out_publish(qos) ==
    /\ sess.out.npub < MaxPubs
    /\ sess' = [sess EXCEPT !.out.npub = @ + 1,
                            !.out.back_log = Append(@, [msg |-> sess.out.npub + 1,
                                                        qos |-> qos])]
    /\ UNCHANGED <<chanVars, wt, shd, cl, cx>>

\* The shard flushes the session's back_log.
out_flush ==
    /\ sess.out.back_log # <<>>
    /\ sess' = [sess EXCEPT !.out = flush_back_log(@)]
    /\ UNCHANGED <<chanVars, wt, shd, cl, cx>>

\* The client acknowledges the PUBLISH it received with PacketID pid.
out_puback(pid) ==
    /\ pid \in DOMAIN sess.out.inflight
    /\ sess' = [sess EXCEPT !.out.inflight = Del(@, {pid}),
                            !.out.acked = @ \cup {sess.out.inflight[pid]}]
    /\ UNCHANGED <<chanVars, wt, shd, cl, cx>>

(* ---- Session: inbound acknowledgement bookkeeping ---- *)
Min(S) == CHOOSE x \in S : \A y \in S : x <= y

Max(S) == CHOOSE x \in S : \A y \in S : x >= y

\* Bookkeeping that follows the fastest peer.
max_last_acked(acks) ==
    IF DOMAIN acks = {} THEN 0 ELSE Max({acks[t] : t \in DOMAIN acks})

\* min over peer_acks of last_acked
min_last_acked(acks) ==
    IF DOMAIN acks = {} THEN 0 ELSE Min({acks[t] : t \in DOMAIN acks})

\* the highest inp_seqno routed to peer shard t so far (0: none)
RoutedTo(t) ==
    Max({0} \cup {s \in 1..Len(sess.inp.pubs) : t \in sess.inp.pubs[s].peers})

\* A QoS1 PUBLISH with PacketID pid is admitted; ps are the peer shards with
\* subscribers.  It gets the next InpSeqno and is recorded in the index; every
\* peer it is routed to has an entry in peer_acks from then on.
inp_publish(pid, ps) ==
    /\ sess.inp.seqno <= MaxInpPubs
    /\ pid \notin DOMAIN sess.inp.index
    /\ sess' = [sess EXCEPT
           !.inp.seqno = @ + 1,
           !.inp.index = Put(@, pid, sess.inp.seqno),
           !.inp.pubs = Append(@, [pid |-> pid, peers |-> ps]),
           !.inp.peer_acks = [t \in DOMAIN @ \cup ps |->
                                 IF t \in DOMAIN @ THEN @[t] ELSE 0]]
    /\ UNCHANGED <<chanVars, wt, shd, cl, cx>>

\* LocalAck { shard_id: t, last_acked: n } is handled: peer_acks[t] is
\* updated, index entries with inp_seqno <= min_last_acked are evicted and
\* the PUBACK of each is emitted.
inp_local_ack(t, n) ==
    /\ t \in DOMAIN sess.inp.peer_acks
    /\ sess.inp.peer_acks[t] <= n /\ n <= RoutedTo(t)
    /\ LET acks  == Put(sess.inp.peer_acks, t, n)
           m     == min_last_acked(acks)
           evict == {p \in DOMAIN sess.inp.index : sess.inp.index[p] <= m}
       IN  sess' = [sess EXCEPT
               !.inp.peer_acks = acks,
               !.inp.index = Del(@, evict),
               !.inp.pubacks = [s \in DOMAIN @ |->
                    IF \E p \in evict : sess.inp.index[p] = s
                    THEN @[s] + 1 ELSE @[s]]]
    /\ UNCHANGED <<chanVars, wt, shd, cl, cx>>

(* ---- Shard: routing to a peer shard ---- *)
\* the clone of the shard's MsgTx that carries one batch
BatchTx == 1

\* One shard S and its MsgTx (handle SessionTx of the queue) to a peer T.
\*   pc         run | sending (in try_sends) | parked (after Block) | closed
\*   inp_seqno  the next InpSeqno of the shard (starts at 1)
\*   pending    inp_seqnos of the Routed messages waiting for the MsgTx
\*   maxtail    history: the longest unsent tail that was re-queued
ShdInit == [pc |-> "run", inp_seqno |-> 1, pending |-> <<>>, maxtail |-> 0]

\* The shard admits a PUBLISH that has subscribers on T: the next InpSeqno is
\* assigned and Message::new_routed(sess, inp_seqno, ..) waits for the MsgTx.
shard_admit ==
    /\ shd.pc \in {"run", "parked"}
    /\ shd.inp_seqno <= MaxRouted
    /\ shd' = [shd EXCEPT !.inp_seqno = @ + 1, !.pending = Append(@, shd.inp_seqno)]
    /\ UNCHANGED <<chanVars, wt, sess, cl, cx>>

\* The shard hands its pending Routed messages to try_sends(msgs) of a clone
\* of its MsgTx.
shard_route ==
    /\ shd.pc = "run" /\ shd.pending # <<>>
    /\ tx[SessionTx].st = "live" /\ tx[BatchTx].st # "live"
    /\ tx' = [tx EXCEPT ![BatchTx] =
                 [CloneTx(tx[SessionTx]) EXCEPT !.pc = "sends", !.iter = shd.pending,
                                                !.B = shd.pending]]
    /\ shd' = [shd EXCEPT !.pc = "sending", !.pending = <<>>]
    /\ UNCHANGED <<queue, rx_alive, wake_pending, rx, sent, recvd, next_item, sock, now,
                  wt, sess, cl, cx>>

\* try_sends has returned and the clone is dropped, which wakes T: on Block
\* the unsent tail is re-queued and the shard parks; on Disconnected the peer
\* is gone.
shard_routed ==
    /\ shd.pc = "sending" /\ tx[BatchTx].pc = "idle"
    /\ shd' = CASE tx[BatchTx].status = "Ok" -> [shd EXCEPT !.pc = "run"]
                [] tx[BatchTx].status = "Block" ->
                     [shd EXCEPT !.pc = "parked",
                                 !.pending = tx[BatchTx].values \o @,
                                 !.maxtail = IF Len(tx[BatchTx].values) > @
                                             THEN Len(tx[BatchTx].values) ELSE @]
                [] OTHER -> [shd EXCEPT !.pc = "closed"]
    /\ DropTx(BatchTx)
    /\ UNCHANGED <<queue, rx_alive, rx, sent, recvd, next_item, sock, now,
                  wt, sess, cl, cx>>

\* The next poll turn of a parked shard: it retries.
shard_retry ==
    /\ shd.pc = "parked"
    /\ shd' = [shd EXCEPT !.pc = "run"]
    /\ UNCHANGED <<chanVars, wt, sess, cl, cx>>

(* ---- Cluster: state ---- *)
\* config.num_shards(): a power of two
num_shards == 2 ^ ShardBits

ShardIds == 0..(num_shards - 1)

ClientIds == 1..MaxClientId

\* Rebalancer::session_parition(client_id, num_shards): the shard that hosts
\* the sessions of client_id, a function of the client id into 0..num_shards-1
session_parition(client_id, n) == client_id % n

\* a child of the cluster, as an entry of the close sequence
Child(kind, id) == [kind |-> kind, id |-> id]

\* The application thread, the cluster thread and the children.
\*   app       the application: init | spawned (threads started, Set not yet
\*             requested) | set_wait | ready | close_wait | joining | joined
\*   app_tx    the application's handle holds a sender of the control channel
\*   th        the cluster thread: none | poll | events (in mio_events, about
\*             to drain) | drain (requests of one drained batch in hand) |
\*             closing (in handle_close) | exit | panic
\*   inner     the thread's Inner: Main | Init (moved out) | Close
\*   wake      the thread's waker is signalled
\*   chan      the control channel;  batch: the requests drain_control_chan
\*             took and has not yet handled;  empty, disconnected: what
\*             pending_requests reported with them
\*   shards    the keys of run_loop.shards
\*   shard, listener, ticker, flusher: none | running | closed
\*   lwait     the listener waits for the response to an AddConnection
\*   todo      the children handle_close has still to close, from: who called it
\*   order, fwd, taken, adds, resp: history (children in the order they were
\*             closed; add_session calls as [cid, shard]; AddConnection
\*             requests handle_add_connection was entered for; AddConnection
\*             requests sent; requests of the application answered)
\*   why       history: the call in which the thread panicked
\*   late      history: Set and AddConnection requests whose handler was
\*             entered after Close had been handled
ClInit ==
    [app |-> "init", app_tx |-> FALSE, th |-> "none", inner |-> "Init",
     wake |-> FALSE, chan |-> <<>>, batch |-> <<>>, empty |-> TRUE,
     disconnected |-> FALSE, shards |-> {},
     shard |-> [i \in ShardIds |-> "none"],
     listener |-> "none", ticker |-> "none", flusher |-> "none",
     lwait |-> FALSE, todo |-> <<>>, from |-> "none",
     order |-> <<>>, fwd |-> <<>>, taken |-> 0, adds |-> 0, resp |-> {},
     why |-> "none", late |-> 0]

\* some sender of the control channel is alive: the application's handle, or
\* the clone held by the listener or by a shard
SendersAlive(c) ==
    \/ c.app_tx
    \/ c.listener = "running"
    \/ \E i \in ShardIds : c.shard[i] = "running"

(* ---- Cluster: the application's side ---- *)
\* Cluster::spawn up to the spawn of the ticker: the flusher, the cluster
\* thread (Inner::Main, empty shard map, default listener and ticker), the
\* shards, the listener and the ticker are started.
spawn_threads ==
    /\ cl.app = "init"
    /\ cl' = [cl EXCEPT !.app = "spawned", !.app_tx = TRUE, !.th = "poll",
                        !.inner = "Main", !.flusher = "running",
                        !.shard = [i \in ShardIds |-> "running"],
                        !.listener = "running", !.ticker = "running"]
    /\ UNCHANGED <<chanVars, wt, sess, shd, cx>>

\* Cluster::spawn: thrd.request(Request::Set { listener, ticker, shards })
spawn_request_set ==
    /\ cl.app = "spawned"
    /\ cl' = [cl EXCEPT !.app = "set_wait", !.wake = TRUE,
                        !.chan = Append(@, [kind |-> "Set", cid |-> 0])]
    /\ UNCHANGED <<chanVars, wt, sess, shd, cx>>

\* Cluster::spawn returns Ok(cluster) when Set was answered.
spawn_return ==
    /\ cl.app = "set_wait" /\ "Set" \in cl.resp
    /\ cl' = [cl EXCEPT !.app = "ready"]
    /\ UNCHANGED <<chanVars, wt, sess, shd, cx>>

\* The listener accepted a connection whose CONNECT names client cid:
\* Cluster::add_connection sends Request::AddConnection and waits.
add_connection(cid) ==
    /\ cl.listener = "running" /\ ~cl.lwait
    /\ cl.th \notin {"exit", "panic"}
    /\ cl.adds < MaxConns
    /\ cl' = [cl EXCEPT !.lwait = TRUE, !.adds = @ + 1, !.wake = TRUE,
                        !.chan = Append(@, [kind |-> "AddConnection", cid |-> cid])]
    /\ UNCHANGED <<chanVars, wt, sess, shd, cx>>

\* Cluster::close_wait: thrd.request(Request::Close)
close_wait ==
    /\ cl.app = "ready"
    /\ cl' = [cl EXCEPT !.app = "close_wait", !.wake = TRUE,
                        !.chan = Append(@, [kind |-> "Close", cid |-> 0])]
    /\ UNCHANGED <<chanVars, wt, sess, shd, cx>>

\* Cluster::close_wait: the request was answered or failed (.ok()), and
\* thrd.close_wait() gives up the sender and joins the thread.
close_wait_join ==
    \/ /\ cl.app = "close_wait"
       /\ "Close" \in cl.resp \/ cl.th \in {"exit", "panic"}
       /\ cl' = [cl EXCEPT !.app = "joining", !.app_tx = FALSE]
       /\ UNCHANGED <<chanVars, wt, sess, shd, cx>>
    \/ /\ cl.app = "joining" /\ cl.th \in {"exit", "panic"}
       /\ cl' = [cl EXCEPT !.app = "joined"]
       /\ UNCHANGED <<chanVars, wt, sess, shd, cx>>

(* ---- Cluster: the cluster thread ---- *)
\* A close sequence that closes the flusher first.
close_order_flusher_first(shards) ==
    <<Child("flusher", 0)>>
      \o [i \in 1..Cardinality(shards) |->
            Child("shard", CHOOSE x \in shards :
                             Cardinality({y \in shards : y < x}) = i - 1)]
      \o <<Child("listener", 0), Child("ticker", 0)>>

\* handle_close: the children in the order their close_wait is called: the
\* shards of run_loop.shards (a BTreeMap: ascending shard id), the listener,
\* the ticker, the flusher.
close_order(shards) ==
    [i \in 1..Cardinality(shards) |->
        Child("shard", CHOOSE x \in shards :
                         Cardinality({y \in shards : y < x}) = i - 1)]
      \o <<Child("listener", 0), Child("ticker", 0), Child("flusher", 0)>>

\* handle_close(req), called by `from` (drain: for a Close request, main:
\* by main_loop after its loop): mem::replace(&mut self.inner, Inner::Init),
\* then Main: the poller is dropped and the children are closed;
\* Close: Response::Ok, with Inner::Init left in self.inner;
\* otherwise unreachable!().
handle_close(c, from) ==
    CASE c.inner = "Main" ->
           [c EXCEPT !.inner = "Init", !.th = "closing", !.from = from,
                     !.todo = close_order(c.shards)]
      [] c.inner = "Close" ->
           IF from = "main"
           THEN [c EXCEPT !.inner = "Init", !.th = "exit"]
           ELSE [c EXCEPT !.inner = "Init", !.resp = @ \cup {"Close"}]
      [] OTHER -> [c EXCEPT !.th = "panic", !.why = "handle_close"]

\* handle_set(req): the listener, the ticker and the shard map of the
\* request are installed; unreachable!() unless Inner::Main.
handle_set(c) ==
    IF c.inner # "Main"
    THEN [c EXCEPT !.th = "panic", !.why = "handle_set", !.late = @ + 1]
    ELSE [c EXCEPT !.shards = ShardIds, !.resp = @ \cup {"Set"}]

\* handle_add_connection(req): the session is added to the shard that
\* session_parition gives; todo!() when run_loop.shards has no such key,
\* unreachable!() unless Inner::Main.
handle_add_connection(c, cid) ==
    LET shard_id == session_parition(cid, num_shards)
        c1 == [c EXCEPT !.taken = @ + 1]
    IN  IF c.inner # "Main"
        THEN [c1 EXCEPT !.th = "panic", !.why = "handle_add_connection",
                        !.late = @ + 1]
        ELSE IF shard_id \notin c.shards
        THEN [c1 EXCEPT !.th = "panic", !.why = "todo"]
        ELSE [c1 EXCEPT !.fwd = Append(@, [cid |-> cid, shard |-> shard_id]),
                        !.lwait = FALSE]

\* main_loop: self.as_mut_poll().poll(..): unreachable!() unless Inner::Main;
\* returns with the waker's event.
main_loop_poll ==
    /\ cl.th = "poll"
    /\ cl.inner # "Main" \/ cl.wake
    /\ cl' = IF cl.inner # "Main"
             THEN [cl EXCEPT !.th = "panic", !.why = "as_mut_poll"]
             ELSE [cl EXCEPT !.th = "events", !.wake = FALSE]
    /\ UNCHANGED <<chanVars, wt, sess, shd, cx>>

\* drain_control_chan: pending_requests(&rx, CONTROL_CHAN_SIZE) takes up to
\* CONTROL_CHAN_SIZE requests and reports whether the channel ran empty or
\* disconnected; in state Close the requests are dropped unanswered.
drain_control_chan ==
    /\ cl.th = "events"
    /\ LET n  == IF Len(cl.chan) < CONTROL_CHAN_SIZE THEN Len(cl.chan)
                 ELSE CONTROL_CHAN_SIZE
           qs == SubSeq(cl.chan, 1, n)
           ran_out == Len(cl.chan) < CONTROL_CHAN_SIZE
           skip == cl.inner = "Close"
       IN  cl' = [cl EXCEPT
               !.th = "drain",
               !.chan = SubSeq(@, n + 1, Len(@)),
               !.batch = IF skip THEN <<>> ELSE qs,
               !.empty = ran_out /\ SendersAlive(cl),
               !.disconnected = ran_out /\ ~SendersAlive(cl),
               !.lwait = IF skip /\ \E i \in 1..n : qs[i].kind = "AddConnection"
                         THEN FALSE ELSE @]
    /\ UNCHANGED <<chanVars, wt, sess, shd, cx>>

\* drain_control_chan: the next request of the batch is handled.
handle_request ==
    /\ cl.th = "drain" /\ cl.batch # <<>>
    /\ LET q == Head(cl.batch)
           c == [cl EXCEPT !.batch = Tail(@)]
       IN  cl' = CASE q.kind = "Set" -> handle_set(c)
                   [] q.kind = "AddConnection" -> handle_add_connection(c, q.cid)
                   [] OTHER -> handle_close(c, "drain")
    /\ UNCHANGED <<chanVars, wt, sess, shd, cx>>

\* handle_close: close_wait() of the next child.
close_child ==
    /\ cl.th = "closing" /\ cl.todo # <<>>
    /\ LET ch == Head(cl.todo)
           c  == [cl EXCEPT !.todo = Tail(@), !.order = Append(@, ch)]
       IN  cl' = CASE ch.kind = "shard" -> [c EXCEPT !.shard[ch.id] = "closed"]
                   [] ch.kind = "listener" -> [c EXCEPT !.listener = "closed"]
                   [] ch.kind = "ticker" -> [c EXCEPT !.ticker = "closed"]
                   [] OTHER -> [c EXCEPT !.flusher = "closed"]
    /\ UNCHANGED <<chanVars, wt, sess, shd, cx>>

\* handle_close: every child is closed; self.inner = Inner::Close(fin_state)
\* and Response::Ok.
handle_close_end ==
    /\ cl.th = "closing" /\ cl.todo = <<>>
    /\ cl' = IF cl.from = "main"
             THEN [cl EXCEPT !.inner = "Close", !.th = "exit"]
             ELSE [cl EXCEPT !.inner = "Close", !.th = "drain",
                             !.resp = @ \cup {"Close"}]
    /\ UNCHANGED <<chanVars, wt, sess, shd, cx>>

\* drain_control_chan has returned (empty, disconnected) to mio_events:
\* disconnected ends main_loop, which calls handle_close(Request::Close);
\* empty goes back to poll; otherwise the channel is drained again.
mio_events ==
    /\ cl.th = "drain" /\ cl.batch = <<>>
    /\ cl' = IF cl.disconnected THEN handle_close(cl, "main")
             ELSE IF cl.empty THEN [cl EXCEPT !.th = "poll"]
             ELSE [cl EXCEPT !.th = "events"]
    /\ UNCHANGED <<chanVars, wt, sess, shd, cx>>

(* ======================= calls of pure functions ======================= *)
\* cx holds one call of a function that has no state of its own: the name of
\* the function, its input, what it returned and, for a decode of encoded
\* bytes, the value the bytes were encoded from.
NoVal == [nil |-> TRUE]

\* Option<T>: None, or Some(v)
None == <<>>

Some(v) == <<v>>

CxIdle == [fn |-> "none", inp |-> NoVal, out |-> NoVal, src |-> None]

\* Result<T>: Ok(v), or the error of a kind
Ok(v) == <<"Ok", v>>

\* err!(kind, ...)?: the function returns the error of that kind
Err(kind) == <<kind>>

IsOk(r) == r[1] = "Ok"

KindOf(r) == r[1]

ValOf(r) == r[2]

call(fn, inp, out, src) ==
    /\ cx' = [fn |-> fn, inp |-> inp, out |-> out, src |-> src]
    /\ UNCHANGED <<chanVars, wt, sess, shd, cl>>

(* ---- Cluster::from_config ---- *)
MaxNumShards == 128

RECURSIVE is_power_of_2(_)
is_power_of_2(n) ==
    IF n <= 1 THEN n = 1
    ELSE n % 2 = 0 /\ is_power_of_2(n \div 2)

from_config_nonzero(n_shards) ==
    IF n_shards = 0 THEN Err("InvalidInput")
    ELSE Ok([inner |-> "Init", shards |-> n_shards])

\* Cluster::from_config: the two checks of config.num_shards(), then the
\* cluster value in Inner::Init.
from_config(n_shards) ==
    IF n_shards = 0 THEN Err("InvalidInput")
    ELSE IF ~is_power_of_2(n_shards) THEN Err("InvalidInput")
    ELSE Ok([inner |-> "Init", shards |-> n_shards])

\* the states of a Cluster value: Inner::{Init, Handle, Tx, Main, Close}
Inners == {"Init", "Handle", "Tx", "Main", "Close"}

\* Cluster::spawn(self, ..) on a value whose self.inner is `inner`:
\* InvalidInput when it matches Inner::Handle or Inner::Main; otherwise the
\* flusher, the cluster thread, the shards, the listener and the ticker are
\* spawned and a cluster in state Handle is returned
Cluster_spawn(inner) ==
    IF inner \in {"Handle", "Main"} THEN Err("InvalidInput")
    ELSE Ok(<<"Handle",
              {"flusher", "cluster", "shard", "listener", "ticker"}>>)

Cluster_spawn_call ==
    /\ cx.fn = "none"
    /\ \E inner \in Inners :
           call("Cluster::spawn", inner, Cluster_spawn(inner), None)

from_config_call ==
    /\ cx.fn = "none"
    /\ \E n \in 0..MaxNumShards : call("from_config", n, from_config(n), None)

(* ---- v5: fields on the wire ---- *)
\* A packet on the wire is modelled field by field: what each field holds
\* and how many bytes it takes.  Strings and binary data are sequences of
\* characters; a properties section is the sequence of its entries, each a
\* property type and a value.
MaxStrLen == 1

MaxPropVal == 2

MaxProps == 2

MaxPubProps == 1

MaxWirePid == 1

u8 == 0..255

Strings == UNION {[1..k -> {"a"}] : k \in 0..MaxStrLen}

SeqsUpTo(S, n) == UNION {[1..k -> S] : k \in 0..n}

\* number of bytes of a variable-length integer
VarU32_len(n) ==
    IF n < 128 THEN 1 ELSE IF n < 16384 THEN 2 ELSE IF n < 2097152 THEN 3 ELSE 4

\* the type of the value each property carries
PropertyValue ==
    [PayloadFormatIndicator |-> "u8", MessageExpiryInterval |-> "u32",
     ContentType |-> "str", ResponseTopic |-> "str", CorrelationData |-> "str",
     SubscriptionIdentifier |-> "varu32", SessionExpiryInterval |-> "u32",
     AuthenticationMethod |-> "str", AuthenticationData |-> "str",
     RequestProblemInformation |-> "u8", WillDelayInterval |-> "u32",
     RequestResponseInformation |-> "u8", ReasonString |-> "str",
     ReceiveMaximum |-> "u16", TopicAliasMaximum |-> "u16",
     UserProp |-> "pair", MaximumPacketSize |-> "u32"]

Property(pt, val) == [pt |-> pt, val |-> val]

\* every entry of the given property types, over the bounded values
Entries(pts) ==
    {Property(pt, v) : pt \in {p \in pts : PropertyValue[p] \in {"str", "pair"}},
                       v \in Strings}
    \cup {Property(pt, v) : pt \in {p \in pts : PropertyValue[p] \notin {"str", "pair"}},
                            v \in 0..MaxPropVal}

\* bytes of one entry: the property id, then the value; a user property is
\* a pair of strings, of which the model keeps the first (the second is empty)
Property_len(e) ==
    1 + CASE PropertyValue[e.pt] = "u8" -> 1
          [] PropertyValue[e.pt] = "u16" -> 2
          [] PropertyValue[e.pt] = "u32" -> 4
          [] PropertyValue[e.pt] = "varu32" -> VarU32_len(e.val)
          [] PropertyValue[e.pt] = "str" -> 2 + Len(e.val)
          [] PropertyValue[e.pt] = "pair" -> 2 + Len(e.val) + 2

RECURSIVE Entries_len(_)
Entries_len(entries) ==
    IF entries = <<>> THEN 0
    ELSE Property_len(Head(entries)) + Entries_len(Tail(entries))

\* bytes of a properties section: its length prefix and its entries
Section_len(entries) == VarU32_len(Entries_len(entries)) + Entries_len(entries)

\* enc_prop!(opt: data, Prop, field): one entry when the field is Some
enc_prop_opt(pt, field) ==
    IF field = None THEN <<>> ELSE <<Property(pt, field[1])>>

RECURSIVE enc_user_properties(_)
enc_user_properties(user_properties) ==
    IF user_properties = <<>> THEN <<>>
    ELSE <<Property("UserProp", Head(user_properties))>>
         \o enc_user_properties(Tail(user_properties))

(* ---- v5::pubaclc: PubAck, PubRec, PubRel, PubComp ---- *)
ReasCode ==
    [Success |-> 0, NoMatchingSubscribers |-> 16, UnspecifiedError |-> 128,
     ImplementationSpecificError |-> 131, NotAuthorized |-> 135,
     TopicNameInvalid |-> 144, PacketIdentifierInUse |-> 145,
     PacketIdNotFound |-> 146, QuotaExceeded |-> 151,
     PayloadFormatInvalid |-> 153]

ReasCodes == DOMAIN ReasCode

\* impl TryFrom<u8> for ReasCode
ReasCode_try_from(val) ==
    IF \E c \in ReasCodes : ReasCode[c] = val
    THEN Ok(CHOOSE c \in ReasCodes : ReasCode[c] = val)
    ELSE Err("ProtocolError")

PubTypes == {"PubAck", "PubRec", "PubRel", "PubComp"}

Properties_default == [reason_string |-> None, user_properties |-> <<>>]

RECURSIVE Properties_decode_nodups(_, _, _)
Properties_decode_nodups(entries, dups, props) ==
    IF entries = <<>> THEN Ok(props)
    ELSE LET property == Head(entries)
             pt == property.pt
         IN  IF pt = "ReasonString"
             THEN Properties_decode_nodups(Tail(entries), dups \cup {pt},
                      [props EXCEPT !.reason_string = Some(property.val)])
             ELSE IF pt = "UserProp"
             THEN Properties_decode_nodups(Tail(entries), dups \cup {pt},
                      [props EXCEPT !.user_properties = Append(@, property.val)])
             ELSE Err("ProtocolError")

\* the loop of Properties::decode over the entries of the section: dups is
\* the set of property types seen so far
RECURSIVE Properties_decode_loop(_, _, _)
Properties_decode_loop(entries, dups, props) ==
    IF entries = <<>> THEN Ok(props)
    ELSE LET property == Head(entries)
             pt == property.pt
         IN  IF pt # "UserProp" /\ pt \in dups THEN Err("ProtocolError")
             ELSE IF pt = "ReasonString"
             THEN Properties_decode_loop(Tail(entries), dups \cup {pt},
                      [props EXCEPT !.reason_string = Some(property.val)])
             ELSE IF pt = "UserProp"
             THEN Properties_decode_loop(Tail(entries), dups \cup {pt},
                      [props EXCEPT !.user_properties = Append(@, property.val)])
             ELSE Err("ProtocolError")

Properties_decode(entries) ==
    Properties_decode_loop(entries, {}, Properties_default)

Properties_encode(props) ==
    enc_prop_opt("ReasonString", props.reason_string)
    \o enc_user_properties(props.user_properties)

\* dec_props!(type, stream, n): an empty section is no properties (None),
\* any other section is Some of what the type's decode returns
dec_props(entries, decoded) ==
    IF entries = <<>> THEN Ok(None)
    ELSE IF IsOk(decoded) THEN Ok(Some(ValOf(decoded))) ELSE decoded

\* A packet of the family on the wire: the packet type of its fixed header,
\* the packet id, and the rest of the body: nothing, the reason-code byte,
\* or the reason-code byte and the properties section.
PubARLC_remaining_len(w) ==
    2 + (IF Len(w.body) >= 1 THEN 1 ELSE 0)
      + (IF Len(w.body) >= 2 THEN Section_len(w.body[2]) ELSE 0)

FixedHeader_len(remaining_len) == 1 + VarU32_len(remaining_len)

PubARLC_len(w) ==
    FixedHeader_len(PubARLC_remaining_len(w)) + PubARLC_remaining_len(w)

PubARLC(packet_type, packet_id, code, properties) ==
    [packet_type |-> packet_type, packet_id |-> packet_id, code |-> code,
     properties |-> properties]

\* the match on (packet_type, code) of PubARLC::decode, arm by arm
invalid_code(packet_type, code) ==
    CASE packet_type = "PubAck" /\ code = "PacketIdNotFound" -> FALSE
      [] packet_type = "PubRec" /\ code = "PacketIdNotFound" -> FALSE
      [] packet_type = "PubRel" /\ code = "Success" -> TRUE
      [] packet_type = "PubRel" /\ code = "PacketIdNotFound" -> TRUE
      [] packet_type = "PubRel" /\ code \notin {"Success", "PacketIdNotFound"} -> FALSE
      [] packet_type = "PubComp" /\ code = "Success" -> TRUE
      [] packet_type = "PubComp" /\ code = "PacketIdNotFound" -> TRUE
      [] packet_type = "PubComp" /\ code \notin {"Success", "PacketIdNotFound"} -> FALSE
      [] OTHER -> TRUE

\* PubARLC::decode: Ok of the packet and the number of bytes read, or the
\* first error
PubARLC_decode(w) ==
    LET remaining_len == PubARLC_remaining_len(w)
        n == FixedHeader_len(remaining_len) + 2
    IN  IF remaining_len = 2
        THEN Ok([pkt |-> PubARLC(w.packet_type, w.packet_id, "Success", None),
                 n |-> n])
        ELSE LET code == ReasCode_try_from(w.body[1])
             IN  IF ~IsOk(code) THEN code
                 ELSE IF invalid_code(w.packet_type, ValOf(code))
                 THEN Err("MalformedPacket")
                 ELSE IF remaining_len < 4
                 THEN Ok([pkt |-> PubARLC(w.packet_type, w.packet_id,
                                          ValOf(code), None),
                          n |-> n + 1])
                 ELSE LET properties ==
                              dec_props(w.body[2], Properties_decode(w.body[2]))
                      IN  IF ~IsOk(properties) THEN properties
                          ELSE Ok([pkt |-> PubARLC(w.packet_type, w.packet_id,
                                                   ValOf(code), ValOf(properties)),
                                   n |-> n + 1 + Section_len(w.body[2])])

\* PubARLC::encode: packet id, reason code, the properties or an empty
\* section, then the fixed header, which exists for three of the four types
PubARLC_encode(v) ==
    LET data == <<ReasCode[v.code],
                  IF v.properties # None THEN Properties_encode(v.properties[1])
                  ELSE <<>> >>
    IN  IF v.packet_type \in {"PubRel", "PubRec", "PubComp"}
        THEN Ok([packet_type |-> v.packet_type, packet_id |-> v.packet_id,
                 body |-> data])
        ELSE Err("InvalidInput")

\* the packets of the family a peer may send, over the bounded fields
PubWires ==
    [packet_type : PubTypes, packet_id : 0..MaxWirePid,
     body : {<<>>} \cup {<<b>> : b \in u8}
            \cup {<<ReasCode[c], es>> :
                     c \in ReasCodes,
                     es \in SeqsUpTo(Entries({"ReasonString", "UserProp",
                                              "ContentType"}), MaxPubProps)}]

\* the values of the family a caller may encode
PubVals ==
    [packet_type : PubTypes, packet_id : 0..MaxWirePid, code : ReasCodes,
     properties : {None} \cup
         {Some(p) : p \in [reason_string : {None} \cup {Some(s) : s \in Strings},
                           user_properties : SeqsUpTo(Strings, MaxPubProps)]}]

PubARLC_decode_call ==
    /\ cx.fn = "none"
    /\ \E w \in PubWires : call("PubARLC::decode", w, PubARLC_decode(w), None)

PubARLC_encode_call ==
    /\ cx.fn = "none"
    /\ \E v \in PubVals : call("PubARLC::encode", v, PubARLC_encode(v), None)

\* the bytes an encode returned are decoded
PubARLC_decode_encoded ==
    /\ cx.fn = "PubARLC::encode" /\ IsOk(cx.out)
    /\ call("PubARLC::decode", ValOf(cx.out), PubARLC_decode(ValOf(cx.out)),
            Some(cx.inp))

(* ---- v5::connect: ConnectProperties and WillProperties ---- *)
ConnectProperties_default ==
    [receive_maximum |-> None, user_properties |-> <<>>,
     session_expiry_interval |-> None, max_packet_size |-> None,
     topic_alias_max |-> None, request_response_info |-> None,
     request_problem_info |-> None, authentication_method |-> None,
     authentication_data |-> None]

\* the match on the property of ConnectProperties::decode, arm by arm
ConnectProperties_match(props, property) ==
    LET pt == property.pt
        v == property.val
    IN  CASE pt = "SessionExpiryInterval" ->
                 Ok([props EXCEPT !.session_expiry_interval = Some(v)])
          [] pt = "ReceiveMaximum" ->
                 IF v = 0 THEN Err("ProtocolError")
                 ELSE Ok([props EXCEPT !.receive_maximum = Some(v)])
          [] pt = "MaximumPacketSize" ->
                 IF v = 0 THEN Err("ProtocolError")
                 ELSE Ok([props EXCEPT !.max_packet_size = Some(v)])
          [] pt = "TopicAliasMaximum" ->
                 Ok([props EXCEPT !.topic_alias_max = Some(v)])
          [] pt = "RequestResponseInformation" ->
                 IF v \in {0, 1}
                 THEN Ok([props EXCEPT !.request_response_info = Some(v = 1)])
                 ELSE Err("ProtocolError")
          [] pt = "RequestProblemInformation" ->
                 IF v \in {0, 1}
                 THEN Ok([props EXCEPT !.request_problem_info = Some(v = 1)])
                 ELSE Err("ProtocolError")
          [] pt = "UserProp" ->
                 Ok([props EXCEPT !.user_properties = Append(@, v)])
          [] pt = "AuthenticationMethod" ->
                 Ok([props EXCEPT !.authentication_method = Some(v)])
          [] pt = "AuthenticationData" ->
                 Ok([props EXCEPT !.authentication_data = Some(v)])
          [] OTHER -> Err("ProtocolError")

\* the loop of ConnectProperties::decode: dups is the set of property types
\* seen so far
RECURSIVE ConnectProperties_decode_loop(_, _, _)
ConnectProperties_decode_loop(entries, dups, props) ==
    IF entries = <<>> THEN Ok(props)
    ELSE LET property == Head(entries)
             pt == property.pt
         IN  IF pt # "UserProp" /\ pt \in dups THEN Err("ProtocolError")
             ELSE LET matched == ConnectProperties_match(props, property)
                  IN  IF ~IsOk(matched) THEN matched
                      ELSE ConnectProperties_decode_loop(
                               Tail(entries), dups \cup {pt}, ValOf(matched))

ConnectProperties_decode(entries) ==
    ConnectProperties_decode_loop(entries, {}, ConnectProperties_default)

\* a bool is written as the byte 1 or 0
enc_prop_bool(pt, field) ==
    IF field = None THEN <<>>
    ELSE <<Property(pt, IF field[1] THEN 1 ELSE 0)>>

ConnectProperties_encode(props) ==
    enc_prop_opt("SessionExpiryInterval", props.session_expiry_interval)
    \o enc_prop_opt("ReceiveMaximum", props.receive_maximum)
    \o enc_prop_opt("MaximumPacketSize", props.max_packet_size)
    \o enc_prop_opt("TopicAliasMaximum", props.topic_alias_max)
    \o enc_prop_bool("RequestResponseInformation", props.request_response_info)
    \o enc_prop_bool("RequestProblemInformation", props.request_problem_info)
    \o enc_prop_opt("AuthenticationMethod", props.authentication_method)
    \o enc_prop_opt("AuthenticationData", props.authentication_data)
    \o enc_user_properties(props.user_properties)

WillProperties_default ==
    [user_properties |-> <<>>, will_delay_interval |-> None,
     payload_format_indicator |-> "Binary", message_expiry_interval |-> None,
     content_type |-> None, response_topic |-> None,
     correlation_data |-> None]

\* PayloadFormat::try_from(u8)
PayloadFormat_try_from(v) ==
    IF v = 0 THEN Ok("Binary")
    ELSE IF v = 1 THEN Ok("Utf8")
    ELSE Err("MalformedPacket")

\* the match on the property of WillProperties::decode, arm by arm
WillProperties_match(wps, property) ==
    LET pt == property.pt
        v == property.val
    IN  CASE pt = "WillDelayInterval" ->
                 Ok([wps EXCEPT !.will_delay_interval = Some(v)])
          [] pt = "PayloadFormatIndicator" ->
                 IF IsOk(PayloadFormat_try_from(v))
                 THEN Ok([wps EXCEPT !.payload_format_indicator =
                                          ValOf(PayloadFormat_try_from(v))])
                 ELSE PayloadFormat_try_from(v)
          [] pt = "MessageExpiryInterval" ->
                 Ok([wps EXCEPT !.message_expiry_interval = Some(v)])
          [] pt = "ContentType" -> Ok([wps EXCEPT !.content_type = Some(v)])
          [] pt = "ResponseTopic" -> Ok([wps EXCEPT !.response_topic = Some(v)])
          [] pt = "CorrelationData" ->
                 Ok([wps EXCEPT !.correlation_data = Some(v)])
          [] pt = "UserProp" ->
                 Ok([wps EXCEPT !.user_properties = Append(@, v)])
          [] OTHER -> Err("ProtocolError")

RECURSIVE WillProperties_decode_loop(_, _, _)
WillProperties_decode_loop(entries, dups, wps) ==
    IF entries = <<>> THEN Ok(wps)
    ELSE LET property == Head(entries)
             pt == property.pt
         IN  IF pt # "UserProp" /\ pt \in dups THEN Err("ProtocolError")
             ELSE LET matched == WillProperties_match(wps, property)
                  IN  IF ~IsOk(matched) THEN matched
                      ELSE WillProperties_decode_loop(
                               Tail(entries), dups \cup {pt}, ValOf(matched))

WillProperties_decode(entries) ==
    WillProperties_decode_loop(entries, {}, WillProperties_default)

WillProperties_encode(wps) ==
    enc_prop_opt("WillDelayInterval", wps.will_delay_interval)
    \o (IF wps.payload_format_indicator = "Utf8"
        THEN <<Property("PayloadFormatIndicator", 1)>> ELSE <<>>)
    \o enc_prop_opt("MessageExpiryInterval", wps.message_expiry_interval)
    \o enc_prop_opt("ContentType", wps.content_type)
    \o enc_prop_opt("ResponseTopic", wps.response_topic)
    \o enc_prop_opt("CorrelationData", wps.correlation_data)
    \o enc_user_properties(wps.user_properties)

(* ---- v5::sub: SubscribeProperties ---- *)
SubscribeProperties_default ==
    [user_properties |-> <<>>, subscription_id |-> None]

\* the match on the property of SubscribeProperties::decode, arm by arm
SubscribeProperties_match(props, property) ==
    LET pt == property.pt
        v == property.val
    IN  CASE pt = "SubscriptionIdentifier" ->
                 IF v = 0 THEN Err("ProtocolError")
                 ELSE Ok([props EXCEPT !.subscription_id = Some(v)])
          [] pt = "UserProp" ->
                 Ok([props EXCEPT !.user_properties = Append(@, v)])
          [] OTHER -> Err("ProtocolError")

RECURSIVE SubscribeProperties_decode_loop(_, _, _)
SubscribeProperties_decode_loop(entries, dups, props) ==
    IF entries = <<>> THEN Ok(props)
    ELSE LET property == Head(entries)
             pt == property.pt
         IN  IF pt # "UserProp" /\ pt \in dups THEN Err("ProtocolError")
             ELSE LET matched == SubscribeProperties_match(props, property)
                  IN  IF ~IsOk(matched) THEN matched
                      ELSE SubscribeProperties_decode_loop(
                               Tail(entries), dups \cup {pt}, ValOf(matched))

SubscribeProperties_decode(entries) ==
    SubscribeProperties_decode_loop(entries, {}, SubscribeProperties_default)

SubscribeProperties_encode(props) ==
    enc_prop_opt("SubscriptionIdentifier", props.subscription_id)
    \o enc_user_properties(props.user_properties)

(* ---- properties sections: the calls ---- *)
\* the property types each section accepts
SectionProps ==
    [ConnectProperties |->
         {"SessionExpiryInterval", "ReceiveMaximum", "MaximumPacketSize",
          "TopicAliasMaximum", "RequestResponseInformation",
          "RequestProblemInformation", "UserProp", "AuthenticationMethod",
          "AuthenticationData"},
     WillProperties |->
         {"WillDelayInterval", "PayloadFormatIndicator",
          "MessageExpiryInterval", "ContentType", "ResponseTopic",
          "CorrelationData", "UserProp"},
     SubscribeProperties |-> {"SubscriptionIdentifier", "UserProp"},
     Properties |-> {"ReasonString", "UserProp"}]

Section_decode(sec, entries) ==
    CASE sec = "ConnectProperties" -> ConnectProperties_decode(entries)
      [] sec = "WillProperties" -> WillProperties_decode(entries)
      [] sec = "SubscribeProperties" -> SubscribeProperties_decode(entries)
      [] sec = "Properties" -> Properties_decode(entries)

Section_encode(sec, props) ==
    CASE sec = "ConnectProperties" -> ConnectProperties_encode(props)
      [] sec = "WillProperties" -> WillProperties_encode(props)
      [] sec = "SubscribeProperties" -> SubscribeProperties_encode(props)
      [] sec = "Properties" -> Properties_encode(props)

\* a property type each section refuses
Unaccepted ==
    [ConnectProperties |-> "ReasonString", WillProperties |-> "ReasonString",
     SubscribeProperties |-> "ReasonString",
     Properties |-> "TopicAliasMaximum"]

\* the sections a peer may send: entries of the section's property types and
\* of a property type it refuses
SectionWires(sec) ==
    SeqsUpTo(Entries(SectionProps[sec] \cup {Unaccepted[sec]}), MaxProps)

\* the values of a section a caller may encode
SectionVals(sec) ==
    CASE sec = "ConnectProperties" ->
             {[ConnectProperties_default EXCEPT
                   !.receive_maximum = rm, !.max_packet_size = mps,
                   !.request_response_info = rri, !.user_properties = ups] :
                  rm \in {None} \cup {Some(v) : v \in 0..MaxPropVal},
                  mps \in {None} \cup {Some(v) : v \in 0..MaxPropVal},
                  rri \in {None, Some(FALSE), Some(TRUE)},
                  ups \in SeqsUpTo(Strings, MaxProps)}
      [] sec = "WillProperties" ->
             {[WillProperties_default EXCEPT
                   !.will_delay_interval = wdi, !.payload_format_indicator = pfi,
                   !.content_type = ct, !.user_properties = ups] :
                  wdi \in {None} \cup {Some(v) : v \in 0..MaxPropVal},
                  pfi \in {"Binary", "Utf8"},
                  ct \in {None} \cup {Some(s) : s \in Strings},
                  ups \in SeqsUpTo(Strings, MaxProps)}
      [] sec = "SubscribeProperties" ->
             {[SubscribeProperties_default EXCEPT
                   !.subscription_id = sid, !.user_properties = ups] :
                  sid \in {None} \cup {Some(v) : v \in 0..MaxPropVal},
                  ups \in SeqsUpTo(Strings, MaxProps)}
      [] sec = "Properties" ->
             {[Properties_default EXCEPT
                   !.reason_string = rs, !.user_properties = ups] :
                  rs \in {None} \cup {Some(s) : s \in Strings},
                  ups \in SeqsUpTo(Strings, MaxProps)}

Section_decode_call ==
    /\ cx.fn = "none"
    /\ \E sec \in DOMAIN SectionProps : \E entries \in SectionWires(sec) :
           call("Section::decode", [sec |-> sec, entries |-> entries],
                Section_decode(sec, entries), None)

Section_encode_call ==
    /\ cx.fn = "none"
    /\ \E sec \in DOMAIN SectionProps : \E props \in SectionVals(sec) :
           call("Section::encode", [sec |-> sec, props |-> props],
                Ok(Section_encode(sec, props)), None)

\* the section an encode returned is decoded
Section_decode_encoded ==
    /\ cx.fn = "Section::encode" /\ IsOk(cx.out)
    /\ call("Section::decode", [sec |-> cx.inp.sec, entries |-> ValOf(cx.out)],
            Section_decode(cx.inp.sec, ValOf(cx.out)), Some(cx.inp.props))

(* ---- v5::connect: ConnectFlags and Connect ---- *)
CLEAN_START == 2

WILL_FLAG == 4

WILL_QOS_MASK == 24

WILL_RETAIN == 32

USERNAME == 64

PASSWORD == 128

\* a & b of two bytes
RECURSIVE BitAnd(_, _)
BitAnd(a, b) ==
    IF a = 0 \/ b = 0 THEN 0
    ELSE (a % 2) * (b % 2) + 2 * BitAnd(a \div 2, b \div 2)

\* err!(kind, code: code, ...)?: an error whose reason code is not the one
\* of its kind
ErrCode(kind, code) == <<kind, code>>

\* the reason code an error carries
CodeOf(r) == r[Len(r)]

ConnectFlags_validate_none(flags) == Ok(NoVal)

\* ConnectFlags::validate: the reserved bit
ConnectFlags_validate(flags) ==
    IF BitAnd(flags, 1) > 0 THEN Err("MalformedPacket") ELSE Ok(NoVal)

\* ConnectFlags::decode of the byte: Ok of the flags and one byte read
ConnectFlags_decode(byte) ==
    IF ~IsOk(ConnectFlags_validate(byte)) THEN ConnectFlags_validate(byte)
    ELSE Ok([pkt |-> byte, n |-> 1])

\* ConnectFlags::encode: Ok of the byte written
ConnectFlags_encode(flags) ==
    IF ~IsOk(ConnectFlags_validate(flags)) THEN ConnectFlags_validate(flags)
    ELSE Ok(flags)

is_will_flag(flags) == BitAnd(flags, WILL_FLAG) > 0

is_username(flags) == BitAnd(flags, USERNAME) > 0

is_password(flags) == BitAnd(flags, PASSWORD) > 0

\* MqttProtocol::try_from(u8)
MqttProtocol_try_from(byte) ==
    IF byte = 5 THEN Ok("V5")
    ELSE IF byte = 4 THEN Ok("V4")
    ELSE ErrCode("ProtocolError", "UnsupportedProtocolVersion")

\* u8::from(MqttProtocol)
MqttProtocol_u8(version) == IF version = "V5" THEN 5 ELSE 4

\* QoS::try_from(u8)
QoS_try_from(byte) ==
    IF byte \in 0..2 THEN Ok(byte) ELSE Err("MalformedPacket")

\* ConnectFlags::unwrap: (clean_start, will_flag, will_qos, will_retain). In
\* `self.0 & Self::WILL_QOS_MASK >> 3` the shift binds tighter than the
\* and, so the byte is masked with WILL_QOS_MASK >> 3; `.unwrap()` of a
\* failed conversion panics
ConnectFlags_unwrap(flags) ==
    LET clean_start == BitAnd(flags, CLEAN_START) > 0
        will_flag == BitAnd(flags, WILL_FLAG) > 0
        will_qos == QoS_try_from(BitAnd(flags, WILL_QOS_MASK \div 8))
        will_retain == BitAnd(flags, WILL_RETAIN) > 0
    IN  IF ~IsOk(will_qos) THEN Err("panic")
        ELSE Ok(<<clean_start, will_flag, ValOf(will_qos), will_retain>>)

\* std::str::from_utf8: the character "\xff" stands for a byte sequence
\* that is no UTF-8
from_utf8(payload) ==
    IF \E i \in 1..Len(payload) : payload[i] = "\\xff"
    THEN Err("Utf8Error") ELSE Ok(payload)

MQTT == <<"M", "Q", "T", "T">>

\* Connect::validate, check by check
Connect_validate(v) ==
    LET flags == v.flags
        pld == v.payload
    IN  IF v.protocol_name # MQTT
        THEN ErrCode("ProtocolError", "UnsupportedProtocolVersion")
        ELSE IF v.protocol_version # "V5"
        THEN ErrCode("ProtocolError", "UnsupportedProtocolVersion")
        ELSE IF ~IsOk(ConnectFlags_validate(flags))
        THEN ConnectFlags_validate(flags)
        ELSE IF ~IsOk(QoS_try_from(BitAnd(flags, WILL_QOS_MASK) \div 8))
        THEN QoS_try_from(BitAnd(flags, WILL_QOS_MASK) \div 8)
        ELSE IF /\ BitAnd(flags, WILL_FLAG) > 0
                /\ \/ pld.will_topic = None
                   \/ pld.will_properties = None
                   \/ pld.will_payload = None
        THEN Err("MalformedPacket")
        ELSE IF /\ pld.will_properties # None
                /\ pld.will_properties[1].payload_format_indicator = "Utf8"
        THEN IF pld.will_payload = None THEN Err("panic")
             ELSE IF ~IsOk(from_utf8(pld.will_payload[1]))
             THEN Err("MalformedPacket")
             ELSE Ok(NoVal)
        ELSE Ok(NoVal)

\* bytes of a String, a TopicName or a Vec<u8>: a u16 length and the data
String_len(s) == 2 + Len(s)

\* A CONNECT on the wire: the fields of the variable header, the client id,
\* and the fields that follow it, in the order they were written.
\* dec_field!(type, stream, n; cond): None when cond is false, else the next
\* field; a stream that ends before the field is an error.
dec_field_if(cond, fields) ==
    IF ~cond THEN [err |-> FALSE, val |-> None, rest |-> fields]
    ELSE IF fields = <<>> THEN [err |-> TRUE, val |-> None, rest |-> fields]
    ELSE [err |-> FALSE, val |-> Some(Head(fields)), rest |-> Tail(fields)]

Connect(w, version, properties, will_properties, f2, f3, f4, f5) ==
    [protocol_name |-> w.protocol_name, protocol_version |-> version,
     flags |-> w.flags, keep_alive |-> w.keep_alive,
     properties |-> properties,
     payload |-> [client_id |-> w.client_id,
                  will_properties |-> will_properties,
                  will_topic |-> f2.val, will_payload |-> f3.val,
                  username |-> f4.val, password |-> f5.val]]

Opt_len(field) == IF field = None THEN 0 ELSE String_len(field[1])

\* Connect::decode: Ok of the packet and the number of bytes read, or the
\* first error
Connect_decode(w) ==
    LET version == MqttProtocol_try_from(w.protocol_version)
        flags == ConnectFlags_decode(w.flags)
        properties ==
            dec_props(w.properties, ConnectProperties_decode(w.properties))
        will_flag == is_will_flag(w.flags)
        f1 == dec_field_if(will_flag, w.fields)
        will_properties ==
            IF f1.val = None THEN Ok(None)
            ELSE dec_props(f1.val[1], WillProperties_decode(f1.val[1]))
        f2 == dec_field_if(will_flag, f1.rest)
        f3 == dec_field_if(will_flag, f2.rest)
        f4 == dec_field_if(is_username(w.flags), f3.rest)
        f5 == dec_field_if(is_password(w.flags), f4.rest)
        val == Connect(w, ValOf(version), ValOf(properties),
                       ValOf(will_properties), f2, f3, f4, f5)
        remaining_len ==
            String_len(w.protocol_name) + 1 + 1 + 2 + Section_len(w.properties)
            + String_len(w.client_id)
            + (IF f1.val = None THEN 0 ELSE Section_len(f1.val[1]))
            + Opt_len(f2.val) + Opt_len(f3.val) + Opt_len(f4.val)
            + Opt_len(f5.val)
    IN  IF ~IsOk(version) THEN version
        ELSE IF ~IsOk(flags) THEN flags
        ELSE IF ~IsOk(properties) THEN properties
        ELSE IF f1.err THEN Err("InsufficientBytes")
        ELSE IF ~IsOk(will_properties) THEN will_properties
        ELSE IF f2.err \/ f3.err \/ f4.err \/ f5.err
        THEN Err("InsufficientBytes")
        ELSE IF ~IsOk(Connect_validate(val)) THEN Connect_validate(val)
        ELSE Ok([pkt |-> val,
                 n |-> FixedHeader_len(remaining_len) + remaining_len])

\* the fields Connect::encode writes after the client id: each one that is
\* Some, whatever the flags say
Connect_fields(pld) ==
    (IF pld.will_properties = None THEN <<>>
     ELSE <<WillProperties_encode(pld.will_properties[1])>>)
    \o pld.will_topic \o pld.will_payload \o pld.username \o pld.password

\* Connect::encode: validate, then the fields
Connect_encode(v) ==
    IF ~IsOk(Connect_validate(v)) THEN Connect_validate(v)
    ELSE Ok([protocol_name |-> v.protocol_name,
             protocol_version |-> MqttProtocol_u8(v.protocol_version),
             flags |-> v.flags, keep_alive |-> v.keep_alive,
             properties |-> IF v.properties = None THEN <<>>
                            ELSE ConnectProperties_encode(v.properties[1]),
             client_id |-> v.payload.client_id,
             fields |-> Connect_fields(v.payload)])

\* data.len() of Connect::encode with the fixed header in front: the length
\* of every field written
Connect_len(v) ==
    LET remaining_len ==
            String_len(v.protocol_name) + 1 + 1 + 2
            + (IF v.properties = None THEN VarU32_len(0)
               ELSE Section_len(ConnectProperties_encode(v.properties[1])))
            + String_len(v.payload.client_id)
            + (IF v.payload.will_properties = None THEN 0
               ELSE Section_len(
                        WillProperties_encode(v.payload.will_properties[1])))
            + Opt_len(v.payload.will_topic) + Opt_len(v.payload.will_payload)
            + Opt_len(v.payload.username) + Opt_len(v.payload.password)
    IN  FixedHeader_len(remaining_len) + remaining_len

\* the CONNECT value with the given flags byte that carries exactly the
\* fields its flags announce
ConnectOf(flags) ==
    [protocol_name |-> MQTT, protocol_version |-> "V5", flags |-> flags,
     keep_alive |-> 0, properties |-> None,
     payload |->
         [client_id |-> <<"a">>,
          will_properties |->
              IF is_will_flag(flags)
              THEN Some([WillProperties_default EXCEPT
                             !.will_delay_interval = Some(1)])
              ELSE None,
          will_topic |-> IF is_will_flag(flags) THEN Some(<<"a">>) ELSE None,
          will_payload |-> IF is_will_flag(flags) THEN Some(<<>>) ELSE None,
          username |-> IF is_username(flags) THEN Some(<<"a">>) ELSE None,
          password |-> IF is_password(flags) THEN Some(<<>>) ELSE None]]

\* the CONNECT packet a peer sends for that value
ConnectWireOf(flags) ==
    [protocol_name |-> MQTT, protocol_version |-> 5, flags |-> flags,
     keep_alive |-> 0, properties |-> <<>>, client_id |-> <<"a">>,
     fields |-> Connect_fields(ConnectOf(flags).payload)]

\* flags bytes made of the reserved bit, the will flag and the username and
\* password flags, and the byte whose will-QoS bits are 3
ConnectFlagSamples ==
    {b \in u8 : BitAnd(b, 255 - 1 - WILL_FLAG - USERNAME - PASSWORD) = 0}
    \cup {WILL_QOS_MASK}

PayloadFields ==
    {"will_properties", "will_topic", "will_payload", "username", "password"}

\* a CONNECT value with the given protocol name, version and flags byte that
\* carries the given payload fields, whatever its flags announce
ConnectWith(name, version, flags, present) ==
    [protocol_name |-> name, protocol_version |-> version, flags |-> flags,
     keep_alive |-> 0, properties |-> None,
     payload |->
         [client_id |-> <<"a">>,
          will_properties |->
              IF "will_properties" \in present
              THEN Some([WillProperties_default EXCEPT
                             !.will_delay_interval = Some(1)])
              ELSE None,
          will_topic |-> IF "will_topic" \in present THEN Some(<<"a">>) ELSE None,
          will_payload |-> IF "will_payload" \in present THEN Some(<<>>) ELSE None,
          username |-> IF "username" \in present THEN Some(<<"a">>) ELSE None,
          password |-> IF "password" \in present THEN Some(<<>>) ELSE None]]

\* the sets of payload fields a value with the given flags byte may carry:
\* will fields are carried without the will flag only when no username and
\* no password is announced after them
ConnectPresent(flags) ==
    {P \in SUBSET PayloadFields :
        \/ is_will_flag(flags)
        \/ ~is_username(flags) /\ ~is_password(flags)
        \/ P \subseteq {"username", "password"}}

\* the values a caller may encode
ConnectVals ==
    {ConnectOf(flags) : flags \in u8}
    \cup UNION {{ConnectWith(name, version, flags, present) :
                    name \in {MQTT, <<"M">>}, version \in {"V5", "V4"},
                    present \in ConnectPresent(flags)} :
                flags \in ConnectFlagSamples}

\* the CONNECT packets a peer may send: each carries the fields its flags
\* announce
ConnectWires ==
    {ConnectWireOf(flags) : flags \in u8}
    \cup {[ConnectWireOf(flags) EXCEPT !.protocol_name = name,
                                       !.protocol_version = byte] :
              name \in {MQTT, <<"M">>}, byte \in {5, 4},
              flags \in ConnectFlagSamples}

ConnectFlags_decode_call ==
    /\ cx.fn = "none"
    /\ \E byte \in u8 :
           call("ConnectFlags::decode", byte, ConnectFlags_decode(byte), None)

ConnectFlags_encode_call ==
    /\ cx.fn = "none"
    /\ \E flags \in u8 :
           call("ConnectFlags::encode", flags, ConnectFlags_encode(flags), None)

ConnectFlags_unwrap_call ==
    /\ cx.fn = "none"
    /\ \E flags \in u8 :
           call("ConnectFlags::unwrap", flags, ConnectFlags_unwrap(flags), None)

Connect_decode_call ==
    /\ cx.fn = "none"
    /\ \E w \in ConnectWires : call("Connect::decode", w, Connect_decode(w), None)

Connect_encode_call ==
    /\ cx.fn = "none"
    /\ \E v \in ConnectVals : call("Connect::encode", v, Connect_encode(v), None)

\* the bytes an encode returned are decoded
Connect_decode_encoded ==
    /\ cx.fn = "Connect::encode" /\ IsOk(cx.out)
    /\ call("Connect::decode", ValOf(cx.out), Connect_decode(ValOf(cx.out)),
            Some(cx.inp))

(* ---- v5::sub: SubscriptionOpt and Subscribe ---- *)
MAXIMUM_QOS == 3

NO_LOCAL == 4

RETAIN_AS_PUBLISHED == 8

RETAIN_HANDLING == 48

RESERVED == 192

MaxFilters == 2

\* a | b of two bytes
RECURSIVE BitOr(_, _)
BitOr(a, b) ==
    IF a = 0 THEN b
    ELSE IF b = 0 THEN a
    ELSE (IF a % 2 = 1 \/ b % 2 = 1 THEN 1 ELSE 0)
         + 2 * BitOr(a \div 2, b \div 2)

\* RetainForwardRule::try_from(u8)
RetainForwardRule_try_from(val) ==
    CASE val = 0 -> Ok("OnEverySubscribe")
      [] val = 1 -> Ok("OnNewSubscribe")
      [] val = 2 -> Ok("Never")
      [] OTHER -> Err("MalformedPacket")

\* u8::from(RetainForwardRule)
RetainForwardRule_u8(val) ==
    CASE val = "OnEverySubscribe" -> 0
      [] val = "OnNewSubscribe" -> 1
      [] val = "Never" -> 2

RetainForwardRules == {"OnEverySubscribe", "OnNewSubscribe", "Never"}

\* SubscriptionOpt::new: the byte rfr << 4 | rap | nl | qos
SubscriptionOpt_new(rfr, rap, nl, qos) ==
    LET rfr_u8 == (RetainForwardRule_u8(rfr) * 16) % 256
        rap_u8 == IF rap THEN 8 ELSE 0
        nl_u8 == IF nl THEN 4 ELSE 0
    IN  BitOr(BitOr(BitOr(rfr_u8, rap_u8), nl_u8), qos)

\* SubscriptionOpt::unwrap: (retain_forward_rule, retain_as_published,
\* no_local, qos). The retain-forward rule is converted from
\* `(self.0 >> 4) & RETAIN_HANDLING`: the byte is shifted first and masked
\* with the unshifted mask; `.unwrap()` of a failed conversion panics
SubscriptionOpt_unwrap(opt) ==
    LET qos == QoS_try_from(BitAnd(opt, MAXIMUM_QOS))
        nl == BitAnd(opt, NO_LOCAL) > 0
        rap == BitAnd(opt, RETAIN_AS_PUBLISHED) > 0
        rfr == RetainForwardRule_try_from(
                   BitAnd(opt \div 16, RETAIN_HANDLING))
    IN  IF ~IsOk(qos) \/ ~IsOk(rfr) THEN Err("panic")
        ELSE Ok(<<ValOf(rfr), rap, nl, ValOf(qos)>>)

\* the loop of Subscribe::validate over the filters: the first error
RECURSIVE Subscribe_validate_filters(_)
Subscribe_validate_filters(filters) ==
    IF filters = <<>> THEN Ok(NoVal)
    ELSE LET opt == Head(filters).opt
         IN  IF BitAnd(opt, RESERVED) > 0 THEN Err("MalformedPacket")
             ELSE IF BitAnd(opt, RETAIN_HANDLING) \div 16 = 3
             THEN Err("MalformedPacket")
             ELSE IF ~IsOk(QoS_try_from(BitAnd(opt, MAXIMUM_QOS)))
             THEN QoS_try_from(BitAnd(opt, MAXIMUM_QOS))
             ELSE Subscribe_validate_filters(Tail(filters))

Subscribe_validate_nonempty(v) ==
    IF Len(v.filters) = 0 THEN Err("ProtocolError") ELSE Ok(NoVal)

\* Subscribe::validate: at least one filter, then every filter's option byte
Subscribe_validate(v) ==
    IF Len(v.filters) = 0 THEN Err("ProtocolError")
    ELSE Subscribe_validate_filters(v.filters)

\* the bytes of an encoded SubscribeFilter: the topic filter and the option
\* byte
SubscribeFilter_len(filter) == String_len(filter.topic_filter) + 1

RECURSIVE SubscribeFilters_len(_)
SubscribeFilters_len(filters) ==
    IF filters = <<>> THEN 0
    ELSE SubscribeFilter_len(Head(filters))
         + SubscribeFilters_len(Tail(filters))

\* A SUBSCRIBE on the wire: the remaining length of its fixed header, the
\* packet id, the properties section, and the filters that follow in the
\* stream, which may extend beyond the remaining length or stop short of it.
\* The loop of Subscribe::decode over the first `len` bytes of the payload:
\* the filters that lie in them, or InsufficientBytes when they end inside a
\* filter.
RECURSIVE dec_filters(_, _)
dec_filters(payload, len) ==
    IF len = 0 THEN Ok(<<>>)
    ELSE IF payload = <<>> \/ SubscribeFilter_len(Head(payload)) > len
    THEN Err("InsufficientBytes")
    ELSE LET rest == dec_filters(Tail(payload),
                                 len - SubscribeFilter_len(Head(payload)))
         IN  IF ~IsOk(rest) THEN rest
             ELSE Ok(<<Head(payload)>> \o ValOf(rest))

\* Subscribe::decode: Ok of the packet and the number of bytes read, or the
\* first error; `&stream[n..m]` panics when m < n
Subscribe_decode(w) ==
    LET fh_len == FixedHeader_len(w.remaining_len)
        properties ==
            dec_props(w.properties, SubscribeProperties_decode(w.properties))
        n == fh_len + 2 + Section_len(w.properties)
        m == fh_len + w.remaining_len
        stream_len == n + SubscribeFilters_len(w.payload)
        filters == dec_filters(w.payload, m - n)
        val == [packet_id |-> w.packet_id, properties |-> ValOf(properties),
                filters |-> ValOf(filters)]
    IN  IF ~IsOk(properties) THEN properties
        ELSE IF m = n THEN Err("MalformedPacket")
        ELSE IF m <= stream_len
        THEN IF m < n THEN Err("panic")
             ELSE IF ~IsOk(filters) THEN filters
             ELSE IF ~IsOk(Subscribe_validate(val)) THEN Subscribe_validate(val)
             ELSE Ok([pkt |-> val, n |-> m])
        ELSE Err("MalformedPacket")

\* Subscribe::encode: validate, then the fields
Subscribe_encode(v) ==
    LET properties == IF v.properties = None THEN <<>>
                      ELSE SubscribeProperties_encode(v.properties[1])
    IN  IF ~IsOk(Subscribe_validate(v)) THEN Subscribe_validate(v)
        ELSE Ok([remaining_len |-> 2 + Section_len(properties)
                                   + SubscribeFilters_len(v.filters),
                 packet_id |-> v.packet_id, properties |-> properties,
                 payload |-> v.filters])

\* option bytes: a valid one, QoS 3, retain handling 3, a reserved bit
SubscriptionOptSamples == {1, 3, 48, 64}

\* the filter lists of the packets below: one filter with any option byte,
\* or up to MaxFilters filters with the sampled ones
SubscribeFilters ==
    {<<[topic_filter |-> <<"a">>, opt |-> opt]>> : opt \in u8}
    \cup SeqsUpTo({[topic_filter |-> <<"a">>, opt |-> opt] :
                       opt \in SubscriptionOptSamples}, MaxFilters)

\* the SUBSCRIBE values a caller may encode
SubscribeVals ==
    {[packet_id |-> packet_id, properties |-> properties,
      filters |-> filters] :
         packet_id \in 0..MaxWirePid,
         properties \in {None, Some([SubscribeProperties_default EXCEPT
                                         !.subscription_id = Some(1)])},
         filters \in SubscribeFilters}

\* the remaining lengths a peer may put in front of a stream: the length of
\* the stream, one that ends before the payload, at its start, inside the
\* last filter, or after the end of the stream
SubscribeRemaining(properties, payload) ==
    LET start == 2 + Section_len(properties)
        all == start + SubscribeFilters_len(payload)
    IN  {all, 0, start, all + 1} \cup (IF all > start THEN {all - 1} ELSE {})

\* the SUBSCRIBE packets a peer may send
SubscribeWires ==
    UNION {UNION {{[remaining_len |-> remaining_len, packet_id |-> packet_id,
                    properties |-> properties, payload |-> payload] :
                       packet_id \in 0..MaxWirePid,
                       remaining_len \in
                           SubscribeRemaining(properties, payload)} :
                  payload \in SubscribeFilters} :
           properties \in
               {<<>>, <<Property("SubscriptionIdentifier", 1)>>}}

Subscribe_decode_call ==
    /\ cx.fn = "none"
    /\ \E w \in SubscribeWires :
           call("Subscribe::decode", w, Subscribe_decode(w), None)

Subscribe_encode_call ==
    /\ cx.fn = "none"
    /\ \E v \in SubscribeVals :
           call("Subscribe::encode", v, Subscribe_encode(v), None)

SubscriptionOpt_new_call ==
    /\ cx.fn = "none"
    /\ \E rfr \in RetainForwardRules, rap \in BOOLEAN, nl \in BOOLEAN,
          qos \in 0..2 :
           call("SubscriptionOpt::new", <<rfr, rap, nl, qos>>,
                Ok(SubscriptionOpt_new(rfr, rap, nl, qos)), None)

\* the option a call of new returned is unwrapped
SubscriptionOpt_unwrap_new ==
    /\ cx.fn = "SubscriptionOpt::new"
    /\ call("SubscriptionOpt::unwrap", ValOf(cx.out),
            SubscriptionOpt_unwrap(ValOf(cx.out)), Some(cx.inp))

(* ---- specification of the queue ---- *)
InitChan ==
    /\ queue = <<>>
    /\ rx_alive = TRUE
    /\ wake_pending = FALSE
    /\ tx = [h \in Handles |-> IF h = SessionTx THEN NewTx ELSE FreeTx]
    /\ rx = [pc |-> "run", msgs |-> <<>>, status |-> "none"]
    /\ sent = <<>>
    /\ recvd = <<>>
    /\ next_item = 1
    /\ now = 0

\* Every part other than the queue and the Socket read path, at rest.
InitRest ==
    /\ wt = WtInit /\ sess = SessInit(1) /\ shd = ShdInit /\ cl = ClInit
    /\ cx = CxIdle

Init == InitChan /\ sock = SockInit(1) /\ InitRest

Next ==
    \/ \E h \in Handles, c \in Handles : clone(h, c)
    \/ \E h \in Handles, n \in 0..MaxBatch : try_sends_call(h, n)
    \/ \E h \in Handles : try_sends_step(h)
    \/ \E h \in Handles : drop(h)
    \/ try_recvs_call
    \/ try_recvs_step
    \/ consumer_dispatch
    \/ poll_return
    \/ rx_drop

Spec == Init /\ [][Next]_vars

(* ---- specification of the Socket read path ---- *)
InitSock == InitChan /\ InitRest /\ \E b \in 1..MaxPktBatch : sock = SockInit(b)

NextSock ==
    \/ read_packets_call
    \/ send_upstream_begin
    \/ try_sends_step(SockTx)
    \/ send_upstream_end
    \/ read_packets_read
    \/ Tick
    \/ try_recvs_call
    \/ try_recvs_step
    \/ consumer_dispatch
    \/ poll_return
    \/ rx_drop

SpecSock == InitSock /\ [][NextSock]_vars

(* ---- specification of the outbound side of a Session ---- *)
InitOut ==
    /\ InitChan /\ sock = SockInit(1)
    /\ wt = WtInit /\ shd = ShdInit /\ cl = ClInit /\ cx = CxIdle
    /\ \E rm \in 1..MaxRecvMax : sess = SessInit(rm)

NextOut ==
    \/ \E qos \in 0..1 : out_publish(qos)
    \/ out_flush
    \/ \E pid \in 1..PacketIdMax : out_puback(pid)

SpecOut == InitOut /\ [][NextOut]_vars

(* ---- specification of the inbound side of a Session ---- *)
NextInp ==
    \/ \E pid \in 1..MaxInpPid, ps \in (SUBSET Peers) \ {{}} : inp_publish(pid, ps)
    \/ \E t \in Peers, n \in 0..MaxInpPubs : inp_local_ack(t, n)

SpecInp == Init /\ [][NextInp]_vars

(* ---- specification of a Shard routing to a peer ---- *)
NextShard ==
    \/ shard_admit
    \/ shard_route
    \/ try_sends_step(BatchTx)
    \/ shard_routed
    \/ shard_retry
    \/ try_recvs_call
    \/ try_recvs_step
    \/ consumer_dispatch
    \/ poll_return
    \/ rx_drop

SpecShard == Init /\ [][NextShard]_vars

(* ---- specification of the Cluster ---- *)
NextCluster ==
    \/ spawn_threads
    \/ spawn_request_set
    \/ spawn_return
    \/ \E cid \in ClientIds : add_connection(cid)
    \/ close_wait
    \/ close_wait_join
    \/ main_loop_poll
    \/ drain_control_chan
    \/ handle_request
    \/ close_child
    \/ handle_close_end
    \/ mio_events

SpecCluster == Init /\ [][NextCluster]_vars

(* ---- specification of the Socket write path ---- *)
\* The queue is the outbound packet queue of one connection; its receiver is
\* the Miot thread, which receives only inside write_packets.
InitWrite ==
    /\ queue = <<>> /\ rx_alive = TRUE /\ wake_pending = FALSE
    /\ tx = [h \in Handles |-> IF h = SessionTx THEN NewTx ELSE FreeTx]
    /\ rx = [pc |-> "wait", msgs |-> <<>>, status |-> "none"]
    /\ sent = <<>> /\ recvd = <<>> /\ next_item = 1 /\ now = 0
    /\ sock = SockInit(1)
    /\ InitRest

NextWrite ==
    \/ write_packets_call
    \/ flush_packets_step
    \/ write_packets_try_recvs
    \/ try_recvs_step
    \/ write_packets_recvd
    \/ \E n \in 1..MaxBatch : miot_tx_sends(n)
    \/ try_sends_step(SessionTx)
    \/ drop(SessionTx)
    \/ Tick

SpecWrite == InitWrite /\ [][NextWrite]_vars

(* ---- specification of Cluster::from_config ---- *)
NextConfig ==
    \/ from_config_call
    \/ Cluster_spawn_call

SpecConfig == Init /\ [][NextConfig]_vars

(* ---- specification of the packet codec ---- *)
NextCodec ==
    \/ PubARLC_decode_call
    \/ PubARLC_encode_call
    \/ PubARLC_decode_encoded
    \/ Section_decode_call
    \/ Section_encode_call
    \/ Section_decode_encoded
    \/ ConnectFlags_decode_call
    \/ ConnectFlags_encode_call
    \/ ConnectFlags_unwrap_call
    \/ Connect_decode_call
    \/ Connect_encode_call
    \/ Connect_decode_encoded
    \/ Subscribe_decode_call
    \/ Subscribe_encode_call
    \/ SubscriptionOpt_new_call
    \/ SubscriptionOpt_unwrap_new

SpecCodec == Init /\ [][NextCodec]_vars

(* ======================= claims on the queues ======================= *)

\* Conservation during and after a try_sends call of a live handle.
C1_Inv ==
    \A h \in Handles :
        tx[h].st = "live" =>
            /\ tx[h].pc = "sends" => tx[h].P \o tx[h].iter = tx[h].B
            /\ tx[h].status # "none" =>
                /\ tx[h].P \o tx[h].values = tx[h].B
                /\ (tx[h].status = "Ok") <=> (tx[h].P = tx[h].B)
                /\ tx[h].status = "Ok" => tx[h].values = <<>>
                /\ tx[h].status = "Disconnected" => ~rx_alive
            /\ \A i, j \in 1..Len(tx[h].P) :
                   /\ PosIn(tx[h].P[i], sent) > 0
                   /\ i < j => PosIn(tx[h].P[i], sent) < PosIn(tx[h].P[j], sent)

\* A call ends with Block only on a full queue with the receiver alive.
C1_BlockStep ==
    \A h \in Handles :
        (tx[h].pc = "sends" /\ tx'[h].status = "Block") =>
            (Len(queue) = QueueSize /\ rx_alive)

\* C1: try_sends pushes a prefix P of the batch B into the queue in order
\* and returns the unsent suffix R, failed element first: P ++ R = B; the
\* status is Ok(empty) iff P = B, Block only when the queue was full,
\* Disconnected only when the receiver is gone.
C1_TrySendsPrefix == [](C1_Inv) /\ [][C1_BlockStep]_vars

\* A call returned Block after pushing one item, with the failed one given back.
C1_Witness ==
    \E h \in Handles :
        /\ tx[h].st = "live" /\ tx[h].status = "Block"
        /\ Len(tx[h].P) >= 1 /\ Len(tx[h].values) >= 1

\* C2: a dropped handle has signalled the waker exactly once when its
\* send-count is > 0 and not at all when it is 0; a handle that is not
\* dropped has not signalled it.
C2_WakeOncePerDrop ==
    \A h \in Handles :
        /\ tx[h].st = "dropped" => tx[h].wakes = (IF tx[h].count > 0 THEN 1 ELSE 0)
        /\ tx[h].st # "dropped" => tx[h].wakes = 0

\* One handle dropped after two sends (one wake), another dropped with count 0.
C2_Witness ==
    /\ \E h \in Handles : tx[h].st = "dropped" /\ tx[h].count >= 2 /\ tx[h].wakes = 1
    /\ \E h \in Handles : tx[h].st = "dropped" /\ tx[h].count = 0 /\ tx[h].wakes = 0

\* C3: no lost wake-up: the consumer is never asleep in poll (no wake
\* pending) with an item in the queue unless a producer handle with
\* send-count > 0 is still alive (its drop will wake the consumer).
C3_NoLostWakeup ==
    (rx.pc = "poll" /\ ~wake_pending /\ queue # <<>>) =>
        \E h \in Handles : tx[h].st = "live" /\ tx[h].count > 0

\* The consumer went to poll on an empty queue, then an item was sent and
\* the sending handle dropped: the wake is pending.
C3_Witness ==
    /\ rx.pc = "poll" /\ wake_pending /\ queue # <<>>
    /\ ~ \E h \in Handles : tx[h].st = "live" /\ tx[h].count > 0

\* C4 (as claimed): a clone that made no successful send of its own does
\* not signal the waker when dropped.
C4_Orig ==
    \A h \in Handles :
        (tx[h].st = "dropped" /\ tx[h].own = 0) => tx[h].wakes = 0

\* C5 (as claimed): one try_recvs call returns at most batch_size items.
C5_Orig == rx.pc = "ret" => Len(rx.msgs) <= QueueSize

\* Order and completeness of what try_recvs returns.
C6_Inv ==
    /\ rx_alive =>
         recvd \o (IF rx.pc = "recvs" THEN rx.msgs ELSE <<>>) \o queue = sent
    /\ rx.pc = "ret" =>
        /\ IsPrefix(rx.msgs, SubSeq(sent, Len(recvd) - Len(rx.msgs) + 1, Len(sent)))
        /\ rx.status = "Ok" => Len(rx.msgs) >= QueueSize
        /\ rx.status = "Disconnected" =>
              (~SenderAlive /\ queue = <<>> /\ recvd = sent)

\* A call ends with Block only on an empty queue with a producer alive.
C6_BlockStep ==
    (rx.pc = "recvs" /\ rx'.status = "Block") => (queue = <<>> /\ SenderAlive)

\* C6: try_recvs returns the items in the order sent; Block only when the
\* queue was seen empty with a producer alive, Disconnected only when every
\* producer is dropped and every item sent has been returned, Ok only when
\* the batch limit was reached; the items of successive calls, concatenated,
\* are the items sent.
C6_RecvOrder == [](C6_Inv) /\ [][C6_BlockStep]_vars

\* Disconnected reported after both items sent were returned.
C6_Witness ==
    /\ rx.pc = "ret" /\ rx.status = "Disconnected"
    /\ Len(recvd) >= 2 /\ recvd = sent

(* ================== claims on the Socket read path ================== *)

\* C7: the packets that entered the session's inbound queue are a prefix of
\* the packets parsed from the socket (1, 2, ..., parsed), and outside
\* send_upstream every parsed packet not yet in the queue is held in
\* rd.packets in parse order; inside send_upstream they are held by the
\* batch being sent.
C7_InboundOrder ==
    /\ IsPrefix(sent, Iota(1, sock.parsed))
    /\ sock.pc # "su_wait" => sent \o sock.packets = Iota(1, sock.parsed)
    /\ sock.pc = "su_wait" =>
         sent \o (IF tx[SockTx].pc = "sends" THEN tx[SockTx].iter
                  ELSE tx[SockTx].values) = Iota(1, sock.parsed)
    /\ rx_alive =>
         recvd \o (IF rx.pc = "recvs" THEN rx.msgs ELSE <<>>) \o queue = sent

\* read_packets returned Block from the queue with a parsed packet held back
\* in rd.packets while earlier packets are in the queue.
C7_Witness ==
    /\ sock.pc = "idle" /\ sock.result = "Block"
    /\ sock.packets # <<>> /\ Len(sent) >= 2
    /\ sock.rp_status = "Ok"

\* One read_packet call against the deadline it found armed.
C8_ReadStep ==
    (sock.pc = "read" /\ sock'.pc # "read") =>
        LET out == sock'.rp_out
            st  == sock'.rp_status
            d   == sock.timeout
        IN  /\ out \in Partial =>
                /\ d = <<>> =>
                     (st = "Block" /\ sock'.timeout = <<now + sock_mqtt_read_timeout>>)
                /\ (d # <<>> /\ now <= d[1]) => (st = "Block" /\ sock'.timeout = d)
                /\ (d # <<>> /\ now > d[1]) => st = "Disconnected"
            /\ out = "Fin" => sock'.timeout = <<>>
            /\ (st = "Disconnected" /\ out # "Disconnected") <=>
                   (out \in Partial /\ d # <<>> /\ now > d[1])

\* C8: in a partial state the first would-block arms the deadline at
\* now + sock_mqtt_read_timeout, later would-blocks leave an armed deadline
\* alone, a complete packet clears it; read_packet returns Disconnected for
\* timeout exactly on a would-block after the armed deadline and Block on
\* every would-block at or before it.
C8_ReadTimeout == [][C8_ReadStep]_vars

\* A connection timed out in the middle of its second packet.
C8_Witness ==
    /\ sock.disc = "timeout" /\ sock.result = "Disconnected"
    /\ sock.parsed >= 1 /\ sock.pr \in {"Header", "Remain"}

\* C9: a read_packets call in which the socket read reported the peer gone
\* or the deadline exceeded returns Disconnected, never Ok or Block.
C9_DisconnectReported ==
    (sock.pc = "idle" /\ sock.disc # "none") => sock.result = "Disconnected"

\* The disconnect came in a call that had parsed packets before it.
C9_Witness ==
    /\ sock.pc = "idle" /\ sock.disc # "none" /\ sock.result = "Disconnected"
    /\ sock.parsed_call >= 2

\* C10 (as claimed): one read_packets call parses at most
\* mqtt_pkt_batch_size packets.
C10_Orig ==
    (sock.pc = "idle" /\ sock.result # "none") => sock.parsed_call <= sock.batch

\* C11 (as claimed): after every return of read_packet, write_packet and
\* flush_packets, rd.pr and wt.pw hold a real state, never the sentinel that
\* mem::replace left behind.
C11_Orig == sock.pr # "None" /\ wt.pw.st # "None"

\* C12: the packets the Miot thread received are, in queue order, those
\* already taken by flush_packets, then those still in its iterator, then
\* wt.packets, then those try_recvs just returned; the packets handed to the
\* writer are the taken ones without those whose encode failed, in the same
\* order.
C12_Taken == SubSeq(recvd, 1, Len(wt.written) + Cardinality(wt.skipped))

C12_Inv ==
    /\ Len(wt.written) + Cardinality(wt.skipped) <= Len(recvd)
    /\ wt.written = SelectSeq(C12_Taken, LAMBDA p : p \notin wt.skipped)
    /\ SubSeq(recvd, Len(C12_Taken) + 1, Len(recvd))
         = wt.iter \o wt.packets \o (IF rx.pc = "ret" THEN rx.msgs ELSE <<>>)

\* C12: a failed encode leaves flush_packets in its loop, and flush_packets
\* returns with packets left over only with Block or Disconnected.
C12_FlushStep ==
    /\ wt'.skipped # wt.skipped => wt'.pc = "floop"
    /\ (wt.pc = "floop" /\ wt'.pc # "floop" /\ wt'.packets # <<>>)
         => wt'.fres \in {"Block", "Disconnected"}

\* C12: in flush_packets a packet whose encode fails is dropped without
\* stopping the flush, the other packets are handed to the writer in queue
\* order, and on Block or Disconnected the packets not yet taken stay in
\* wt.packets in their order.
C12_EncodeSkip == [](C12_Inv) /\ [][C12_FlushStep]_vars

\* C12 witness: a packet was skipped, the next one was handed to the writer,
\* and the writer blocked with a later packet left in wt.packets.
C12_Witness ==
    /\ wt.pc = "idle" /\ wt.result = "Block" /\ wt.packets # <<>>
    /\ \E i \in 1..Len(wt.written) :
         /\ wt.written[i] - 1 \in wt.skipped
         /\ wt.packets[1] > wt.written[i]

\* C13 (as claimed): the Stats returned by a write_packets call are the
\* totals of the call over all its flush_packets rounds.
C13_Orig ==
    (wt.pc = "idle" /\ wt.result # "none") => wt.stats = wt.tot

\* C14: inflight never holds more than receive_maximum entries.
C14_Inv == Cardinality(DOMAIN sess.out.inflight) <= sess.out.receive_maximum

\* C14: the messages a step sends to the client are the oldest ones of
\* back_log, in their order; after a flush whatever still waits is headed by
\* a QoS>0 message and inflight is at the limit.
C14_FlushStep ==
    LET o == sess.out
        k == Len(sess'.out.sent) - Len(o.sent)
    IN  /\ k >= 0
        /\ SubSeq(sess'.out.sent, 1, Len(o.sent)) = o.sent
        /\ k > 0 =>
             /\ k <= Len(o.back_log)
             /\ \A i \in 1..k : sess'.out.sent[Len(o.sent) + i].msg = o.back_log[i].msg
             /\ sess'.out.back_log = SubSeq(o.back_log, k + 1, Len(o.back_log))
             /\ sess'.out.back_log # <<>> =>
                  /\ Head(sess'.out.back_log).qos > 0
                  /\ Cardinality(DOMAIN sess'.out.inflight) = o.receive_maximum

\* C14: inflight never exceeds receive_maximum; at the limit further QoS>0
\* messages wait in back_log, and an acknowledgement releases the oldest
\* waiting message first.
C14_ReceiveMaximum == [](C14_Inv) /\ [][C14_FlushStep]_vars

\* C14 witness: receive_maximum = 2 and five QoS1 publishes; the first was
\* acknowledged and that released the third, the last two still wait.
C14_Witness ==
    /\ sess.out.receive_maximum = 2 /\ sess.out.npub = 5
    /\ sess.out.acked = {1}
    /\ {sess.out.inflight[p] : p \in DOMAIN sess.out.inflight} = {2, 3}
    /\ [i \in 1..Len(sess.out.back_log) |-> sess.out.back_log[i].msg] = <<4, 5>>
    /\ \A i \in 1..Len(sess.out.sent) : sess.out.sent[i].qos = 1

\* C15: every PacketID allocated for a QoS>0 PUBLISH is in 1..PacketIdMax,
\* the counter is never 0, and two PUBLISHes that are both unacknowledged
\* never share a PacketID; inflight holds exactly the unacknowledged ones
\* under their PacketIDs.
C15_PacketIdUnique ==
    LET o == sess.out
        U == {i \in 1..Len(o.sent) : o.sent[i].qos > 0 /\ o.sent[i].msg \notin o.acked}
    IN  /\ o.next_packet_id \in 1..PacketIdMax
        /\ \A i \in 1..Len(o.sent) : o.sent[i].qos > 0 => o.sent[i].pid \in 1..PacketIdMax
        /\ \A i, j \in U : i # j => o.sent[i].pid # o.sent[j].pid
        /\ \A i \in U : /\ o.sent[i].pid \in DOMAIN o.inflight
                        /\ o.inflight[o.sent[i].pid] = o.sent[i].msg
        /\ Cardinality(DOMAIN o.inflight) = Cardinality(U)

\* C15 witness: the counter has wrapped and skipped an id that was still in
\* flight, and an acknowledged id was used again.
C15_Witness ==
    LET o == sess.out
    IN  \E i, j, k \in 1..Len(o.sent) :
          /\ i < j /\ j < k
          /\ o.sent[i].qos > 0 /\ o.sent[i].msg \notin o.acked
          /\ o.sent[j].pid = PacketIdMax
          /\ o.sent[k].pid = NextId(o.sent[i].pid) /\ o.sent[i].pid = 1
          /\ k = j + 1
          /\ \E l \in 1..Len(o.sent) : l < k /\ o.sent[l].pid = o.sent[k].pid

C17_InpSeqnoOrder ==
    /\ shd.inp_seqno >= 1
    /\ \A i, j \in 1..Len(recvd) : i < j => recvd[i] < recvd[j]
    /\ \A i \in 1..Len(recvd) : recvd[i] \in 1..(shd.inp_seqno - 1)

\* C17 witness: try_sends reported Block with two messages unsent, they were
\* re-queued and retried, and the peer has received all of them.
C17_Witness ==
    /\ Len(recvd) = MaxRouted /\ shd.maxtail >= 2

\* C18 (as claimed): every AddConnection the cluster handles is forwarded by
\* add_session to the shard session_parition(client_id, num_shards), a shard
\* in 0..num_shards-1; connections of one ClientID go to one shard.
C18_Orig ==
    /\ cl.taken = Len(cl.fwd)
    /\ \A i \in 1..Len(cl.fwd) :
         /\ cl.fwd[i].shard = session_parition(cl.fwd[i].cid, num_shards)
         /\ cl.fwd[i].shard \in ShardIds
    /\ \A i, j \in 1..Len(cl.fwd) :
         cl.fwd[i].cid = cl.fwd[j].cid => cl.fwd[i].shard = cl.fwd[j].shard

\* C19 (as claimed): on Close the listener and the ticker are closed before
\* any shard is closed.
C19_Orig ==
    (\E i \in ShardIds : cl.shard[i] = "closed")
        => (cl.listener = "closed" /\ cl.ticker = "closed")

\* C20: whenever the flusher is closed, no shard is still running: every
\* shard was closed and joined before.
C20_ShardsBeforeFlusher ==
    cl.flusher = "closed" => \A i \in ShardIds : cl.shard[i] = "closed"

\* C20 witness: a close sequence ran to its end: every shard and then the
\* flusher were closed.
C20_Witness ==
    /\ cl.inner = "Close" /\ cl.flusher = "closed"
    /\ \A i \in ShardIds : cl.shard[i] = "closed"
    /\ Len(cl.order) = num_shards + 3
    /\ cl.order[Len(cl.order)].kind = "flusher"

\* C21 (as claimed): once Close has been handled, no Set or AddConnection
\* is executed any more: none enters its handler, none is forwarded to a
\* shard, none runs into unreachable!().
C21_Orig ==
    /\ cl.late = 0
    /\ cl.why \notin {"handle_set", "handle_add_connection"}

\* C22 (as claimed): after Close the cluster thread never polls the dropped
\* poller, never reaches unreachable!(), and leaves main_loop in state
\* Inner::Close with every child closed exactly once.
C22_Orig ==
    /\ cl.why \notin {"as_mut_poll", "handle_close"}
    /\ cl.th = "exit" =>
         /\ cl.inner = "Close"
         /\ Len(cl.order) = num_shards + 3
         /\ \A i, j \in 1..Len(cl.order) : i # j => cl.order[i] # cl.order[j]

(* ======================= claims on the configuration ======================= *)

\* C23: Cluster::from_config returns InvalidInput and no cluster for
\* num_shards = 0 and for every num_shards that is not a power of two; for
\* every power of two it returns a cluster in state Init.
C23_FromConfig ==
    cx.fn = "from_config" =>
        IF cx.inp >= 1 /\ \A d \in 2..cx.inp : cx.inp % d = 0 => d % 2 = 0
        THEN IsOk(cx.out) /\ ValOf(cx.out).inner = "Init"
        ELSE ~IsOk(cx.out) /\ KindOf(cx.out) = "InvalidInput"

\* C23 witness: from_config refused a num_shards that is neither zero nor a
\* power of two.
C23_Witness ==
    /\ cx.fn = "from_config" /\ cx.inp = 6
    /\ ~IsOk(cx.out) /\ KindOf(cx.out) = "InvalidInput"

(* ======================= claims on the packet codec ======================= *)

\* the reason code a defined byte stands for
C24_CodeOf(b) == CHOOSE c \in ReasCodes : ReasCode[c] = b

\* the legality of a reason code for a packet type, as the specification
\* states it
C24_Legal(packet_type, code) ==
    IF packet_type \in {"PubRel", "PubComp"}
    THEN code \in {"Success", "PacketIdNotFound"}
    ELSE code # "PacketIdNotFound"

\* a decode call on a packet with an explicit, defined reason-code byte and
\* a properties section, if any, that decodes
C24_Explicit ==
    /\ cx.fn = "PubARLC::decode"
    /\ Len(cx.inp.body) >= 1
    /\ \E c \in ReasCodes : ReasCode[c] = cx.inp.body[1]
    /\ Len(cx.inp.body) >= 2 => IsOk(Properties_decode(cx.inp.body[2]))

\* C24 (as claimed): decode of a packet with an explicit reason code accepts
\* it by packet type: PubRel and PubComp accept exactly Success and
\* PacketIdNotFound; PubAck and PubRec reject PacketIdNotFound and accept
\* the other nine defined codes.
C24_Orig ==
    C24_Explicit =>
        (IsOk(cx.out) <=> C24_Legal(cx.inp.packet_type, C24_CodeOf(cx.inp.body[1])))

\* C25 (as claimed): with remaining_length = 2 decode returns the packet
\* id, Success and no properties, for all four types; with remaining_length
\* = 3 it returns the decoded reason code and no properties; the packet with
\* an explicit reason code 0x00 decodes to the same value as the packet of
\* remaining_length 2 of the same type and packet id.
C25_Orig ==
    cx.fn = "PubARLC::decode" =>
        /\ PubARLC_remaining_len(cx.inp) = 2 =>
              /\ IsOk(cx.out)
              /\ ValOf(cx.out).pkt = PubARLC(cx.inp.packet_type, cx.inp.packet_id,
                                          "Success", None)
        /\ (PubARLC_remaining_len(cx.inp) = 3 /\ IsOk(cx.out)) =>
              /\ ReasCode[ValOf(cx.out).pkt.code] = cx.inp.body[1]
              /\ ValOf(cx.out).pkt.properties = None
        /\ cx.inp.body = <<0>> =>
              /\ IsOk(cx.out)
              /\ ValOf(cx.out).pkt
                     = ValOf(PubARLC_decode([cx.inp EXCEPT !.body = <<>>])).pkt

\* C26 (as claimed): a reason-code byte outside the ten defined values makes
\* decode fail with MalformedPacket; a defined reason code that is not legal
\* for the packet type makes it fail with ProtocolError.
C26_Orig ==
    (cx.fn = "PubARLC::decode" /\ Len(cx.inp.body) >= 1) =>
        IF \A c \in ReasCodes : ReasCode[c] # cx.inp.body[1]
        THEN ~IsOk(cx.out) /\ KindOf(cx.out) = "MalformedPacket"
        ELSE ~C24_Legal(cx.inp.packet_type, C24_CodeOf(cx.inp.body[1])) =>
                 ~IsOk(cx.out) /\ KindOf(cx.out) = "ProtocolError"

\* C27 (as claimed): for each of the four packet types, every packet id,
\* every reason code legal for the type, and properties absent or present,
\* encode succeeds and decode(encode(v)) = (v, len(encode(v))).
C27_Orig ==
    /\ (cx.fn = "PubARLC::encode"
        /\ C24_Legal(cx.inp.packet_type, cx.inp.code)) => IsOk(cx.out)
    /\ (cx.fn = "PubARLC::decode" /\ cx.src # None
        /\ C24_Legal(cx.src[1].packet_type, cx.src[1].code)) =>
           /\ IsOk(cx.out)
           /\ ValOf(cx.out) = [pkt |-> cx.src[1], n |-> PubARLC_len(cx.inp)]

\* C28 (as claimed): encode validates as strictly as decode: whenever encode
\* of a value returns bytes, decode of those bytes succeeds.
C28_Orig ==
    (/\ cx.fn \in {"PubARLC::decode", "Section::decode", "Connect::decode"}
     /\ cx.src # None) => IsOk(cx.out)

\* an entry allowed in a section: a property type of the section with a
\* value the section accepts
C29_Allowed(sec, e) ==
    /\ e.pt \in SectionProps[sec]
    /\ e.pt \in {"ReceiveMaximum", "MaximumPacketSize", "SubscriptionIdentifier"}
           => e.val # 0
    /\ e.pt \in {"RequestResponseInformation", "RequestProblemInformation",
                 "PayloadFormatIndicator"} => e.val \in {0, 1}

\* some property type other than UserProp occurs more than once
C29_Dup(entries) ==
    \E i, j \in 1..Len(entries) :
        i < j /\ entries[i].pt = entries[j].pt /\ entries[i].pt # "UserProp"

C29_IsUserProp(e) == e.pt = "UserProp"

\* the values of the user properties of a section, in wire order
C29_UserProps(entries) ==
    [i \in 1..Len(SelectSeq(entries, C29_IsUserProp)) |->
         SelectSeq(entries, C29_IsUserProp)[i].val]

\* C29: for every sequence of entries allowed in the section, decode of
\* ConnectProperties, WillProperties, SubscribeProperties and of the
\* PubAck-family Properties fails, with ProtocolError, iff some property type
\* other than UserProperty occurs more than once; UserProperty may repeat
\* and the decoded user_properties keep the wire order.
C29_DuplicateProperty ==
    (/\ cx.fn = "Section::decode"
     /\ \A i \in 1..Len(cx.inp.entries) :
            C29_Allowed(cx.inp.sec, cx.inp.entries[i])) =>
        /\ IsOk(cx.out) <=> ~C29_Dup(cx.inp.entries)
        /\ ~IsOk(cx.out) => KindOf(cx.out) = "ProtocolError"
        /\ IsOk(cx.out) =>
               ValOf(cx.out).user_properties = C29_UserProps(cx.inp.entries)

\* C29 witness: ConnectProperties::decode refused a section that holds
\* ReceiveMaximum twice, each with a value it accepts.
C29_Witness ==
    /\ cx.fn = "Section::decode" /\ cx.inp.sec = "ConnectProperties"
    /\ Len(cx.inp.entries) = 2
    /\ \A i \in 1..2 : /\ cx.inp.entries[i].pt = "ReceiveMaximum"
                       /\ cx.inp.entries[i].val # 0
    /\ ~IsOk(cx.out) /\ KindOf(cx.out) = "ProtocolError"

\* the flags byte of a call of ConnectFlags or Connect
C30_Flags ==
    IF cx.fn \in {"ConnectFlags::decode", "ConnectFlags::encode"}
    THEN cx.inp ELSE cx.inp.flags

\* the Connect of the call has protocol name MQTT and version 5 and carries
\* exactly the payload fields its flags byte announces
C30_Announced ==
    /\ cx.fn = "Connect::encode" => cx.inp = ConnectOf(cx.inp.flags)
    /\ cx.fn = "Connect::decode" => cx.inp = ConnectWireOf(cx.inp.flags)

\* C30: for every CONNECT flags byte whose will-QoS bits are not 3, decode
\* and encode of ConnectFlags, and of a Connect with that flags byte, fail,
\* with MalformedPacket, iff bit 0 of the byte is 1; decode returns no
\* Connect value that has the reserved bit set.
C30_ReservedBit ==
    (/\ cx.fn \in {"ConnectFlags::decode", "ConnectFlags::encode",
                  "Connect::decode", "Connect::encode"}
     /\ C30_Announced) =>
        /\ (C30_Flags \div 8) % 4 # 3 =>
              /\ ~IsOk(cx.out) <=> C30_Flags % 2 = 1
              /\ ~IsOk(cx.out) =>
                     /\ KindOf(cx.out) = "MalformedPacket"
                     /\ CodeOf(cx.out) = "MalformedPacket"
        /\ (cx.fn = "Connect::decode" /\ IsOk(cx.out)) =>
              ValOf(cx.out).pkt.flags % 2 = 0

\* C30 witness: Connect::decode refused a CONNECT whose flags byte has the
\* reserved bit set next to the will flag and the username flag.
C30_Witness ==
    /\ cx.fn = "Connect::decode" /\ cx.inp.flags = 1 + WILL_FLAG + USERNAME
    /\ ~IsOk(cx.out) /\ KindOf(cx.out) = "MalformedPacket"

\* a Connect value with protocol name MQTT, version 5, the reserved bit
\* clear and will-QoS bits other than 3
C31_Sound(v) ==
    /\ v.protocol_name = MQTT /\ v.protocol_version = "V5"
    /\ v.flags % 2 = 0 /\ (v.flags \div 8) % 4 # 3

\* C31 (as claimed): a Connect value with WILL_FLAG set and any of
\* will_properties, will_topic, will_payload absent is rejected by validate,
\* hence by encode, with error kind ProtocolError, whichever of the three is
\* missing; every Connect that decode returns with WILL_FLAG set has all
\* three.
C31_Orig ==
    /\ (/\ cx.fn = "Connect::encode"
        /\ C31_Sound(cx.inp)
        /\ is_will_flag(cx.inp.flags)
        /\ (\/ cx.inp.payload.will_properties = None
            \/ cx.inp.payload.will_topic = None
            \/ cx.inp.payload.will_payload = None))
       => (~IsOk(cx.out) /\ KindOf(cx.out) = "ProtocolError")
    /\ (/\ cx.fn = "Connect::decode"
        /\ IsOk(cx.out)
        /\ is_will_flag(ValOf(cx.out).pkt.flags))
       => (/\ ValOf(cx.out).pkt.payload.will_properties # None
           /\ ValOf(cx.out).pkt.payload.will_topic # None
           /\ ValOf(cx.out).pkt.payload.will_payload # None)

\* C32 (as claimed): every CONNECT whose protocol name is not "MQTT" or
\* whose protocol version is not 5 is rejected by decode, and by encode, with
\* reason code UnsupportedProtocolVersion, whatever its other fields hold,
\* an invalid flags byte included.
C32_Orig ==
    /\ (/\ cx.fn = "Connect::decode"
        /\ (cx.inp.protocol_name # MQTT \/ cx.inp.protocol_version # 5))
       => (~IsOk(cx.out) /\ CodeOf(cx.out) = "UnsupportedProtocolVersion")
    /\ (/\ cx.fn = "Connect::encode"
        /\ (cx.inp.protocol_name # MQTT \/ cx.inp.protocol_version # "V5"))
       => (~IsOk(cx.out) /\ CodeOf(cx.out) = "UnsupportedProtocolVersion")

\* the presence of the optional payload fields of v agrees with the
\* WILL_FLAG, USERNAME and PASSWORD bits of v.flags
C38_Agrees(v) ==
    /\ (v.payload.will_properties # None) <=> is_will_flag(v.flags)
    /\ (v.payload.will_topic # None) <=> is_will_flag(v.flags)
    /\ (v.payload.will_payload # None) <=> is_will_flag(v.flags)
    /\ (v.payload.username # None) <=> is_username(v.flags)
    /\ (v.payload.password # None) <=> is_password(v.flags)

\* C38 (as claimed): for every Connect value v that validate accepts,
\* encode(v) succeeds and decode of the bytes returns v and the length of
\* the bytes; validate accepts v only if the presence of username, password
\* and the three will fields agrees with the flags of v.
C38_Orig ==
    /\ (cx.fn = "Connect::encode" /\ IsOk(Connect_validate(cx.inp)))
       => (IsOk(cx.out) /\ C38_Agrees(cx.inp))
    /\ (cx.fn = "Connect::decode" /\ cx.src # None)
       => (/\ IsOk(cx.out)
           /\ ValOf(cx.out).pkt = cx.src[1]
           /\ ValOf(cx.out).n = Connect_len(cx.src[1]))

\* the four values of the flags byte b as the CONNECT layout defines them:
\* bit 1, bit 2, the two-bit value of bits 3-4, bit 5
C39_Layout(b) ==
    <<(b \div 2) % 2 = 1, (b \div 4) % 2 = 1, (b \div 8) % 4,
      (b \div 32) % 2 = 1>>

\* C39 (as claimed): for every flags byte that ConnectFlags::validate accepts
\* and whose will-QoS bits are not 3, unwrap does not panic and returns
\* clean_start = bit 1, will_flag = bit 2, will_qos = bits 3-4 and
\* will_retain = bit 5, so will_qos does not depend on the CLEAN_START bit.
C39_Orig ==
    (/\ cx.fn = "ConnectFlags::unwrap"
     /\ IsOk(ConnectFlags_validate(cx.inp))
     /\ (cx.inp \div 8) % 4 # 3)
    => (IsOk(cx.out) /\ ValOf(cx.out) = C39_Layout(cx.inp))

\* the option byte b has its top two bits clear, a RetainHandling field
\* (bits 4-5) in {0,1,2} and a QoS field (bits 0-1) in {0,1,2}
C33_OptOk(b) ==
    /\ b \div 64 = 0
    /\ (b \div 16) % 4 \in 0..2
    /\ b % 4 \in 0..2

\* some option byte of the filters has a reserved bit set or RetainHandling
\* 3, and none has QoS 3
C33_BadOpt(filters) ==
    /\ \E i \in 1..Len(filters) :
           filters[i].opt \div 64 # 0 \/ (filters[i].opt \div 16) % 4 = 3
    /\ \A i \in 1..Len(filters) : filters[i].opt % 4 # 3

\* the offset in the body of a SUBSCRIBE on the wire at which its payload
\* starts
C33_Start(w) == 2 + Section_len(w.properties)

\* C33: Subscribe decode and encode reject a packet with no filter; they
\* accept a packet with filters iff every filter's option byte has the top
\* two bits clear, RetainHandling in {0,1,2} and QoS in {0,1,2}; a reserved
\* bit and RetainHandling 3 are reported as MalformedPacket; a successful
\* decode returns consumed = fixed-header length + remaining length.
C33_SubscribeOpt ==
    /\ (cx.fn = "Subscribe::encode")
       => (/\ cx.inp.filters = <<>> => ~IsOk(cx.out)
           /\ cx.inp.filters # <<>> =>
                  (IsOk(cx.out) <=>
                       \A i \in 1..Len(cx.inp.filters) :
                           C33_OptOk(cx.inp.filters[i].opt))
           /\ C33_BadOpt(cx.inp.filters) =>
                  KindOf(cx.out) = "MalformedPacket")
    /\ (cx.fn = "Subscribe::decode")
       => (/\ cx.inp.remaining_len = C33_Start(cx.inp) => ~IsOk(cx.out)
           /\ (/\ cx.inp.payload # <<>>
               /\ cx.inp.remaining_len =
                      C33_Start(cx.inp) + SubscribeFilters_len(cx.inp.payload))
              => (/\ IsOk(cx.out) <=>
                         \A i \in 1..Len(cx.inp.payload) :
                             C33_OptOk(cx.inp.payload[i].opt)
                  /\ C33_BadOpt(cx.inp.payload) =>
                         KindOf(cx.out) = "MalformedPacket")
           /\ IsOk(cx.out) =>
                  ValOf(cx.out).n = FixedHeader_len(cx.inp.remaining_len)
                                    + cx.inp.remaining_len)

\* C33 witness: decode refused a SUBSCRIBE of two filters, the second with
\* RetainHandling 3, as MalformedPacket.
C33_Witness ==
    /\ cx.fn = "Subscribe::decode"
    /\ Len(cx.inp.payload) = 2
    /\ cx.inp.payload[1].opt = 1 /\ cx.inp.payload[2].opt = 48
    /\ cx.inp.remaining_len =
           C33_Start(cx.inp) + SubscribeFilters_len(cx.inp.payload)
    /\ cx.out = Err("MalformedPacket")

\* C40 (as claimed): for every retain-forward rule, rap, nl and qos in
\* 0..2, SubscriptionOpt::new(rfr, rap, nl, qos).unwrap() returns
\* (rfr, rap, nl, qos), and the byte built by new passes Subscribe::validate.
C40_Orig ==
    /\ (cx.fn = "SubscriptionOpt::new")
       => IsOk(Subscribe_validate(
                   [packet_id |-> 0, properties |-> None,
                    filters |-> <<[topic_filter |-> <<"a">>,
                                   opt |-> ValOf(cx.out)]>>]))
    /\ (cx.fn = "SubscriptionOpt::unwrap" /\ cx.src # None)
       => cx.out = Ok(cx.src[1])

\* C34 (as claimed): Cluster::spawn succeeds only on a cluster in state
\* Init: on a cluster whose inner state is Handle, Tx, Main or Close it
\* returns InvalidInput and starts no thread.
C34_Orig ==
    (cx.fn = "Cluster::spawn")
    => (/\ IsOk(cx.out) <=> cx.inp = "Init"
        /\ cx.inp # "Init" => cx.out = Err("InvalidInput"))

\* C35 (as claimed): while Cluster::spawn runs, the cluster thread handles no
\* AddConnection on an empty shard map: handle_add_connection always finds
\* the shard and never reaches todo!().
C35_Orig == cl.why # "todo"

\* C36: the blob the write state holds is that of the packet handed to the
\* writer last.
C36_Inv ==
    wt.pw.blob # 0 =>
        /\ wt.written # <<>>
        /\ wt.pw.blob = wt.written[Len(wt.written)]

\* C36: a step loads the blob of a further packet only inside flush_packets
\* and only behind a write_packet that found the previous blob written
\* completely (the arm of Fin, which clears the write timeout); a
\* flush_packets that returns Block leaves the partly written blob in the
\* write state and takes no packet: those of its iterator go back to
\* wt.packets.
C36_Step ==
    /\ (wt'.pw.blob # wt.pw.blob /\ wt'.pw.blob # 0)
         => /\ wt.pc = "floop"
            /\ wt'.timeout = <<>>
            /\ wt'.pw.st = "Init"
            /\ wt'.written = Append(wt.written, wt'.pw.blob)
    /\ wt'.written # wt.written => wt'.pw.blob # wt.pw.blob
    /\ (wt.pc = "floop" /\ wt'.pc # "floop" /\ wt'.fres = "Block")
         => /\ wt'.pw.blob = wt.pw.blob
            /\ wt'.pw.st \in {"Init", "Remain"}
            /\ wt'.written = wt.written
            /\ wt'.packets = wt.packets \o wt.iter
    /\ wt.pc # "floop" => wt'.pw = wt.pw

\* C36: bytes of two packets never interleave on the socket: flush_packets
\* loads the blob of the next packet only after write_packet reported the
\* previous blob written completely; while a blob is partly written no
\* further packet is taken from wt.packets, and the next call resumes the
\* partly written blob.
C36_NoInterleave == [](C36_Inv) /\ [][C36_Step]_vars

\* C36 witness: a write_packets call returned Block with the blob of its
\* second packet partly written and a third packet waiting in wt.packets.
C36_Witness ==
    /\ wt.pc = "idle" /\ wt.result = "Block"
    /\ wt.pw.st = "Remain" /\ wt.pw.blob # 0
    /\ Len(wt.written) >= 2
    /\ wt.packets # <<>>

\* C37 (as claimed): when write_packets returns the Disconnected that
\* try_recvs reported for the dropped producer, every packet it drained from
\* the queue has been handed to the writer: none is left in wt.packets.
C37_Orig ==
    (wt.pc = "idle" /\ wt.result = "Disconnected" /\ wt.fres = "Ok")
        => wt.packets = <<>>

====
